---------------------------- MODULE Spec2Model ----------------------------
(***************************************************************************)
(* Model of the memory-sidecar indexing pipeline: the chunker              *)
(* (chunking.py), the file filter and walker (flows/codebase.py,           *)
(* config.py), the storage layer (storage.py) and the code index flow      *)
(* (flows/codebase.py).                                                    *)
(*                                                                         *)
(* Conventions.                                                            *)
(*  - A Python str is a sequence of one-character strings; offsets are     *)
(*    0-based as in Python and Slice(s, a, b) is s[a:b].  The alphabet is  *)
(*    ASCII, so byte offsets and character offsets coincide.               *)
(*  - A location f"{idx}:{start}" is the pair <<idx, start>>: the format   *)
(*    is injective on pairs of naturals.                                   *)
(*  - None is the record NoneVal; Some(v) wraps a value that may be None.  *)
(***************************************************************************)
EXTENDS Integers, Sequences, FiniteSets, TLC

(***************************************************************************)
(* Bounds of the model.                                                    *)
(***************************************************************************)
MaxLen == 3
MaxChunk == 3
MaxNodes == 2
MaxDirs == 2
FlowChunkSize == 1
FlowOverlap == 0
FlowBatchSize == 2
MaxRuns == 2
\* the storage specification: highest row id handed out per table, largest
\* embedding coordinate, largest top_k
MaxIds == 2
MaxTopK == 2
MaxEntries == 4
MaxHybridRows == 2

VARIABLES
    chunkIn,    \* chunker specification: the call (function and arguments)
    chunkOut,   \* chunker specification: NoneVal before the call, Some(result) after
    loop,       \* loop specification: start, idx, chunks, iterations of the while loop
    _LANGUAGE_CACHE, \* chunking._LANGUAGE_CACHE, a global of the process: the
                \* dict as the set of its <<language, available>> items
    walkIn,     \* walker specification: the call (function, tree, path)
    walkOut,    \* walker specification: NoneVal before the call, Some(result) after
    _has_vec,   \* storage._has_vec, a global of the process
    version,    \* chunking.CHUNKER_VERSION as compiled in
    source_tree, \* the source tree: path -> Absent, Unreadable or Text
    conn_db,    \* the database as the open connection sees it
    disk,       \* the database as last committed
    pc,         \* "idle", "loop" (inside index_codebase), "done", "failed",
                \* "embed_failed" (the run ended with the embedder's error),
                \* "not_found" (the run ended with FileNotFoundError)
    conn_loaded, \* whether the run's connection loaded the vector extension
    files,      \* the files of the walk not yet visited by the loop
    pending,    \* the buffer of chunks awaiting the embedder
    stats,      \* the run's statistics
    obs,        \* what the run found when it started
    prev,       \* Some(result of the run before) when nothing changed since
    runs,       \* number of runs started
    dbKind,     \* storage specification: the database file the process works on
    lastOp,     \* storage specification: the last storage call and its outcome
    conns       \* the connections the process has opened, in order: for each
                \* the number of the flow call that opened it and whether
                \* close() was called on it

chunkVars == <<chunkIn, chunkOut, loop, _LANGUAGE_CACHE>>
walkVars == <<walkIn, walkOut>>
flowVars == <<_has_vec, version, source_tree, conn_db, disk, pc, conn_loaded, files,
              pending, stats, obs, prev, runs>>
storeVars == <<dbKind, lastOp>>
callVars == <<conns>>
vars == <<chunkVars, walkVars, flowVars, storeVars, callVars>>

NoneVal == [none |-> TRUE]
Some(v) == [none |-> FALSE, val |-> v]

\* the chunker's and the walker's variables while another specification runs
ChunkIdle ==
    chunkIn = NoneVal /\ chunkOut = NoneVal /\ loop = NoneVal /\ _LANGUAGE_CACHE = {}
WalkIdle == walkIn = NoneVal /\ walkOut = NoneVal
CallIdle == conns = <<>>

Min(a, b) == IF a <= b THEN a ELSE b
Max(a, b) == IF a >= b THEN a ELSE b

(***************************************************************************)
(* Python string helpers.                                                  *)
(***************************************************************************)
Alphabet == {"a", " ", "\n"}
Whitespace == {" ", "\n"}

\* s[a:b] for 0 <= a, b <= len(s)
Slice(s, a, b) == SubSeq(s, a + 1, b)

\* bool(s.strip()): some character of s is not whitespace
StripNonEmpty(s) == \E i \in 1..Len(s) : s[i] \notin Whitespace

\* s.rfind("\n", a, b): the highest index in [a, b) holding a newline, or -1
RFindNewline(s, a, b) ==
    LET hits == {i \in a..(b - 1) : s[i + 1] = "\n"}
    IN  IF hits = {} THEN -1 ELSE CHOOSE i \in hits : \A j \in hits : j <= i

\* "\n".join(texts)
RECURSIVE JoinNewline(_)
JoinNewline(texts) ==
    IF Len(texts) = 0 THEN <<>>
    ELSE IF Len(texts) = 1 THEN texts[1]
    ELSE texts[1] \o <<"\n">> \o JoinNewline(Tail(texts))

Strings(n) == UNION {[1..k -> Alphabet] : k \in 0..n}

(***************************************************************************)
(* chunking.py: split_simple                                               *)
(***************************************************************************)
Chunk(text, idx, start) == [text |-> text, location |-> <<idx, start>>]

\* idx after one iteration: incremented only when the slice was appended
NextIdxCountingSkipped(idx, appended) == idx + 1
NextIdx(idx, appended) == IF appended THEN idx + 1 ELSE idx

\* start after one iteration: start = max(advance, start + 1)
NextStartLeavingGap(start, end, chunk_overlap, n) == end + 1
NextStartWithoutFloor(start, end, chunk_overlap, n) ==
    IF end < n THEN end - chunk_overlap ELSE end
NextStart(start, end, chunk_overlap, n) ==
    LET advance == IF end < n THEN end - chunk_overlap ELSE end
    IN  Max(advance, start + 1)

\* one iteration of the while loop of split_simple; st is [start, idx, chunks]
SimpleStepKeepingBlank(content, chunk_size, chunk_overlap, st) ==
    LET start == st.start
        end0 == Min(start + chunk_size, Len(content))
        nl == IF end0 < Len(content) THEN RFindNewline(content, start, end0) ELSE -1
        end == IF end0 < Len(content) /\ nl > start THEN nl + 1 ELSE end0
    IN  [start |-> NextStart(start, end, chunk_overlap, Len(content)),
         idx |-> st.idx + 1,
         chunks |-> Append(st.chunks, Chunk(Slice(content, start, end), st.idx, start))]
SimpleStep(content, chunk_size, chunk_overlap, st) ==
    LET start == st.start
        end0 == Min(start + chunk_size, Len(content))
        nl == IF end0 < Len(content) THEN RFindNewline(content, start, end0) ELSE -1
        end == IF end0 < Len(content) /\ nl > start THEN nl + 1 ELSE end0
        text == Slice(content, start, end)
        keep == StripNonEmpty(text)
    IN  [start |-> NextStart(start, end, chunk_overlap, Len(content)),
         idx |-> NextIdx(st.idx, keep),
         chunks |-> IF keep THEN Append(st.chunks, Chunk(text, st.idx, start))
                    ELSE st.chunks]

\* the while loop of split_simple from (start, idx, chunks)
RECURSIVE SimpleLoop(_, _, _, _, _, _)
SimpleLoop(content, chunk_size, chunk_overlap, start, idx, chunks) ==
    IF ~(start < Len(content)) THEN chunks
    ELSE LET st == SimpleStep(content, chunk_size, chunk_overlap,
                              [start |-> start, idx |-> idx, chunks |-> chunks])
         IN  SimpleLoop(content, chunk_size, chunk_overlap, st.start, st.idx, st.chunks)

SplitSimpleAlwaysLooping(content, chunk_size, chunk_overlap) ==
    SimpleLoop(content, chunk_size, chunk_overlap, 0, 0, <<>>)
split_simple(content, chunk_size, chunk_overlap) ==
    IF Len(content) <= chunk_size
    THEN <<Chunk(content, 0, 0)>>
    ELSE SimpleLoop(content, chunk_size, chunk_overlap, 0, 0, <<>>)

(***************************************************************************)
(* chunking.py: _collect_top_level_nodes, split_ast, chunk_file            *)
(*                                                                         *)
(* A parse is the sequence of the root node's children, each a record      *)
(* [type, start_byte, end_byte].  The parser itself is external: a parse   *)
(* is an input, any ordered sequence of non-overlapping spans of content.  *)
(* A language is "python" (it has definition types) or "json" (it has      *)
(* none); parser = NoneVal is _get_parser returning None.                  *)
(***************************************************************************)
NodeTypes == {"function_definition", "comment", "other"}
Languages == {"python", "json"}

_DEFINITION_TYPES(language) ==
    IF language = "python" THEN {"function_definition"} ELSE {}

RECURSIVE FilterNodes(_, _)
FilterNodes(children, types) ==
    IF children = <<>> THEN <<>>
    ELSE IF Head(children).type \in types
         THEN <<Head(children)>> \o FilterNodes(Tail(children), types)
         ELSE FilterNodes(Tail(children), types)

_collect_top_level_nodes(children, language) ==
    IF _DEFINITION_TYPES(language) = {} THEN children
    ELSE FilterNodes(children,
                     _DEFINITION_TYPES(language) \cup {"comment", "expression_statement"})

\* the text of a node: source[node.start_byte : node.end_byte]
NodeTextCutShort(content, node) == Slice(content, node.start_byte, node.end_byte - 1)
NodeText(content, node) == Slice(content, node.start_byte, node.end_byte)

\* the for loop of split_ast over the remaining nodes; st is the loop state
RECURSIVE AstLoop(_, _, _, _)
AstLoop(content, chunk_size, nodes, st) ==
    IF nodes = <<>> THEN st
    ELSE
      LET node == Head(nodes)
          node_text == NodeText(content, node)
          node_len == Len(node_text)
          flush == st.current_size > 0 /\ st.current_size + node_len > chunk_size
          text == JoinNewline(st.current_texts)
          keep == flush /\ StripNonEmpty(text)
          st1 == IF flush
                 THEN [chunks |-> IF keep
                                  THEN Append(st.chunks, Chunk(text, st.idx, st.current_start_byte))
                                  ELSE st.chunks,
                       idx |-> IF keep THEN st.idx + 1 ELSE st.idx,
                       current_texts |-> <<>>,
                       current_size |-> 0,
                       current_start_byte |-> node.start_byte]
                 ELSE st
      IN  AstLoop(content, chunk_size, Tail(nodes),
                  [st1 EXCEPT !.current_texts = Append(@, node_text),
                              !.current_size = @ + node_len])

\* split_ast; parser is NoneVal or Some(children of the root of the parse)
split_ast(content, language, parser, chunk_size, chunk_overlap) ==
    IF parser.none THEN NoneVal
    ELSE
      LET nodes == _collect_top_level_nodes(parser.val, language)
      IN  IF nodes = <<>> THEN Some(split_simple(content, chunk_size, chunk_overlap))
          ELSE
            LET st == AstLoop(content, chunk_size, nodes,
                              [chunks |-> <<>>, idx |-> 0, current_texts |-> <<>>,
                               current_size |-> 0,
                               current_start_byte |-> nodes[1].start_byte])
                text == JoinNewline(st.current_texts)
                chunks == IF st.current_texts # <<>> /\ StripNonEmpty(text)
                          THEN Append(st.chunks, Chunk(text, st.idx, st.current_start_byte))
                          ELSE st.chunks
            IN  Some(IF chunks # <<>> THEN chunks
                     ELSE split_simple(content, chunk_size, chunk_overlap))

\* chunk_file; language is NoneVal or Some(name), and "if language:" is false
\* for None and for the empty name
ChunkFileTextOnly(content, language, parser, chunk_size, chunk_overlap) ==
    split_simple(content, chunk_size, chunk_overlap)
chunk_file(content, language, parser, chunk_size, chunk_overlap) ==
    LET result == IF language.none \/ language.val = "" THEN NoneVal
                  ELSE split_ast(content, language.val, parser, chunk_size, chunk_overlap)
    IN  IF ~result.none THEN result.val
        ELSE split_simple(content, chunk_size, chunk_overlap)

(***************************************************************************)
(* config.py: EXCLUDED_PATTERNS, CODE_EXTENSIONS; pathlib names.           *)
(* A file or directory name is a sequence of characters; a path relative   *)
(* to the root is the sequence of its components (rel.parts), the last     *)
(* being the file's own name.                                              *)
(***************************************************************************)
EXCLUDED_PATTERNS ==
    { <<".", "*">>,
      <<"b", "i", "n">>,
      <<"o", "b", "j">>,
      <<"n", "o", "d", "e", "_", "m", "o", "d", "u", "l", "e", "s">>,
      <<"t", "a", "r", "g", "e", "t">>,
      <<"_", "_", "p", "y", "c", "a", "c", "h", "e", "_", "_">>,
      <<".", "g", "i", "t">>,
      <<".", "g", "o", "d", "o", "t">>,
      <<"b", "u", "i", "l", "d", "/", "_", "a", "r", "t", "i", "f", "a", "c", "t", "s">>,
      <<"a", "d", "d", "o", "n", "s">> }

CODE_EXTENSIONS ==
    { <<".", "c", "s">>, <<".", "p", "y">>, <<".", "r", "s">>, <<".", "t", "s">>,
      <<".", "j", "s">>, <<".", "t", "s", "x">>, <<".", "j", "s", "x">>,
      <<".", "m", "d">>, <<".", "m", "d", "x">>, <<".", "t", "o", "m", "l">>,
      <<".", "j", "s", "o", "n">>, <<".", "y", "a", "m", "l">>, <<".", "y", "m", "l">>,
      <<".", "g", "d", "s", "c", "r", "i", "p", "t">>, <<".", "t", "s", "c", "n">>,
      <<".", "c", "f", "g">>, <<".", "c", "s", "p", "r", "o", "j">>,
      <<".", "s", "l", "n">> }

\* the characters of the model's names in code-point order (str comparison)
CharOrder == <<".", "C", "M", "S", "_", "a", "b", "c", "d", "f", "g", "h", "i", "l",
               "n", "p", "r", "s", "t", "u", "x", "y">>
Ord(c) == CHOOSE i \in 1..Len(CharOrder) : CharOrder[i] = c

\* str.lower() on one character
LowerChar(c) == CASE c = "C" -> "c" [] c = "M" -> "m" [] c = "S" -> "s" [] OTHER -> c
Lower(name) == [i \in 1..Len(name) |-> LowerChar(name[i])]

\* part.startswith(".")
StartsWithDot(name) == Len(name) > 0 /\ name[1] = "."

\* PurePath.suffix: name[i:] for the last dot at index i when 0 < i < len - 1
Suffix(name) ==
    LET dots == {i \in 0..(Len(name) - 1) : name[i + 1] = "."}
        i == IF dots = {} THEN -1 ELSE CHOOSE d \in dots : \A e \in dots : e <= d
    IN  IF 0 < i /\ i < Len(name) - 1 THEN Slice(name, i, Len(name)) ELSE <<>>

\* str < str
LessName(x, y) ==
    \E i \in 1..(Min(Len(x), Len(y)) + 1) :
        /\ \A j \in 1..(i - 1) : x[j] = y[j]
        /\ \/ i > Len(x) /\ i <= Len(y)
           \/ i <= Len(x) /\ i <= Len(y) /\ Ord(x[i]) < Ord(y[i])

\* sorted(names)
RECURSIVE Sorted(_)
Sorted(names) ==
    IF names = {} THEN <<>>
    ELSE LET m == CHOOSE x \in names : \A y \in names \ {x} : LessName(x, y)
         IN  <<m>> \o Sorted(names \ {m})

(***************************************************************************)
(* flows/codebase.py: _should_include, _walk_source_files                  *)
(***************************************************************************)
\* the parts of rel that the filter examines
PartsExaminedAncestorsOnly(rel) == {rel[i] : i \in 1..(Len(rel) - 1)}
PartsExamined(rel) == {rel[i] : i \in 1..Len(rel)}

\* the extension as compared with the allow-list
ComparedSuffix(name) == Lower(Suffix(name))

_should_include(rel) ==
    IF \E part \in PartsExamined(rel) : part \in EXCLUDED_PATTERNS \/ StartsWithDot(part)
    THEN FALSE
    ELSE ComparedSuffix(rel[Len(rel)]) \in CODE_EXTENSIONS

\* a tree is the set of the root-relative paths of its files
IsPrefix(d, p) == Len(d) <= Len(p) /\ SubSeq(p, 1, Len(d)) = d
FileNamesIn(tree, dirpath) ==
    {p[Len(p)] : p \in {q \in tree : IsPrefix(dirpath, q) /\ Len(q) = Len(dirpath) + 1}}
DirNamesIn(tree, dirpath) ==
    {p[Len(dirpath) + 1] : p \in {q \in tree : IsPrefix(dirpath, q) /\ Len(q) > Len(dirpath) + 1}}

\* os.walk hands a directory's entries over in the order the file system
\* lists them: `order' is that order, a sequence holding every name once
NamesOf(tree) == UNION {{p[i] : i \in 1..Len(p)} : p \in tree}
Listing(names, order) == SelectSeq(order, LAMBDA n : n \in names)
Elements(list) == {list[i] : i \in 1..Len(list)}
Reversed(list) == [i \in 1..Len(list) |-> list[Len(list) + 1 - i]]
Listings(tree) == {Sorted(NamesOf(tree)), Reversed(Sorted(NamesOf(tree)))}

Kept(d) == d \notin EXCLUDED_PATTERNS /\ ~StartsWithDot(d)
PrunedDirsAsListed(dirnames) == SelectSeq(dirnames, Kept)
\* dirnames[:] = sorted(d for d in dirnames if not excluded and not hidden)
PrunedDirs(dirnames) == Sorted({d \in Elements(dirnames) : Kept(d)})

RECURSIVE SelectIncluded(_, _)
SelectIncluded(dirpath, fnames) ==
    IF fnames = <<>> THEN <<>>
    ELSE LET file_path == Append(dirpath, Head(fnames))
         IN  (IF _should_include(file_path) THEN <<file_path>> ELSE <<>>)
             \o SelectIncluded(dirpath, Tail(fnames))

\* os.walk top-down from dirpath: the directory's files in sorted order,
\* then each kept subdirectory in sorted order
RECURSIVE WalkFrom(_, _, _)
RECURSIVE WalkDirs(_, _, _, _)
WalkDirs(tree, dirpath, dirs, order) ==
    IF dirs = <<>> THEN <<>>
    ELSE WalkFrom(tree, Append(dirpath, Head(dirs)), order)
             \o WalkDirs(tree, dirpath, Tail(dirs), order)
WalkFrom(tree, dirpath, order) ==
    LET filenames == Listing(FileNamesIn(tree, dirpath), order)
        dirnames == Listing(DirNamesIn(tree, dirpath), order)
    IN  SelectIncluded(dirpath, Sorted(Elements(filenames)))
            \o WalkDirs(tree, dirpath, PrunedDirs(dirnames), order)

_walk_source_files(tree, order) == WalkFrom(tree, <<>>, order)

(***************************************************************************)
(* storage.py: the code-chunk tables.                                      *)
(*                                                                         *)
(* A database is a record                                                  *)
(*   chunks    the rows of code_chunks, [id, filename, location, language, *)
(*             code] (updated_at, a clock reading, is left out)            *)
(*   vec       the rows of code_chunks_vec, [id, embedding]                *)
(*   vecTable  whether code_chunks_vec has been created                    *)
(*   seq       the highest id AUTOINCREMENT has handed out                 *)
(*   meta      metadata["chunker_version"]: NoneVal or Some(version)       *)
(*   knowledge the rows of knowledge, [id, content, category, tags,        *)
(*             stored_at] (updated_at is left out)                         *)
(*   fts       the rows the full-text index knowledge_fts holds,           *)
(*             [rowid, content, category]                                  *)
(*   ftsTable  whether knowledge_fts and its triggers have been created    *)
(*   kvec      the rows of knowledge_vec, [id, embedding]                  *)
(*   kvecTable whether knowledge_vec has been created                      *)
(*   kseq      the highest id AUTOINCREMENT has handed out for knowledge   *)
(* has_vec is the module global _has_vec; loaded says whether the vector   *)
(* extension was loaded on the connection in use.  A statement on          *)
(* code_chunks_vec raises when the extension is not loaded on the          *)
(* connection or the table was never created.  Every operation returns     *)
(* [db, raised, ret]: the database it leaves (the statements run before    *)
(* an error stay in the open transaction), whether it raised, its result.  *)
(***************************************************************************)
Result(db, raised, ret) == [db |-> db, raised |-> raised, ret |-> ret]

EmptyDb == [chunks |-> {}, vec |-> {}, vecTable |-> FALSE, seq |-> 0, meta |-> NoneVal,
            knowledge |-> {}, kvec |-> {}, kvecTable |-> FALSE, kseq |-> 0,
            fts |-> {}, ftsTable |-> FALSE, ftsRebuilds |-> 0,
            file |-> FALSE, tables |-> {}]

\* sqlite3.connect and the journal pragma create the database file
connect(db) == [db EXCEPT !.file = TRUE]

\* CREATE TABLE IF NOT EXISTS: a schema statement is not part of a
\* transaction of the connection and stays when a later statement raises
CreateTable(db, name) == [db EXCEPT !.tables = @ \cup {name}]

init_metadata_schema(db) == CreateTable(db, "metadata")

VecUsable(db, loaded) == loaded /\ db.vecTable

EnsureVecOfThisConnection(has_vec, loaded) == loaded
\* _ensure_vec: the value of _has_vec after a connect whose load succeeded or not
_ensure_vec(has_vec, loaded) == IF loaded THEN TRUE ELSE has_vec

\* init_codebase_schema: CREATE VIRTUAL TABLE IF NOT EXISTS needs the module
\* only when the table does not exist yet
init_codebase_schema(db, has_vec, loaded) ==
    LET db1 == CreateTable(db, "code_chunks")
    IN  IF has_vec /\ ~db.vecTable
        THEN (IF loaded THEN Result([db1 EXCEPT !.vecTable = TRUE], FALSE, NoneVal)
                        ELSE Result(db1, TRUE, NoneVal))
        ELSE Result(db1, FALSE, NoneVal)

get_metadata(db) == db.meta
SetMetadataDropped(db, value) == db
set_metadata(db, value) == [db EXCEPT !.meta = Some(value)]

\* the vector statement of purge_all_code_chunks, guarded by _has_vec
PurgeVec(db, has_vec) == IF has_vec THEN [db EXCEPT !.vec = {}] ELSE db

purge_all_code_chunks(db, has_vec, loaded) ==
    LET count == Cardinality(db.chunks)
    IN  IF count = 0 THEN Result(db, FALSE, 0)
        ELSE IF has_vec /\ ~VecUsable(db, loaded) THEN Result(db, TRUE, 0)
        ELSE Result([PurgeVec(db, has_vec) EXCEPT !.chunks = {}], FALSE, count)

\* the row of INSERT ... ON CONFLICT(filename, location) DO UPDATE ... RETURNING id
UpsertRowFreshId(db, filename, location, language, code) ==
    [id |-> db.seq + 1, filename |-> filename, location |-> location,
     language |-> language, code |-> code]
UpsertRow(db, filename, location, language, code) ==
    LET old == {r \in db.chunks : r.filename = filename /\ r.location = location}
    IN  [id |-> IF old = {} THEN db.seq + 1 ELSE (CHOOSE r \in old : TRUE).id,
         filename |-> filename, location |-> location,
         language |-> language, code |-> code]

upsert_code_chunk(db, has_vec, loaded, filename, location, language, code, embedding) ==
    LET row == UpsertRow(db, filename, location, language, code)
        db1 == [db EXCEPT
                  !.chunks = {r \in @ : ~(r.filename = filename /\ r.location = location)}
                                \cup {row},
                  !.seq = Max(@, row.id)]
    IN  IF ~has_vec THEN Result(db1, FALSE, NoneVal)
        ELSE IF ~VecUsable(db, loaded) THEN Result(db1, TRUE, NoneVal)
        ELSE Result([db1 EXCEPT !.vec = {v \in @ : v.id # row.id}
                                          \cup {[id |-> row.id, embedding |-> embedding]}],
                    FALSE, NoneVal)

\* the ids delete_stale_chunks selects
StaleIdsOfWholeTable(db, filename, keep_locations) == {r.id : r \in db.chunks}
StaleIdsOfNoRow(db, filename, keep_locations) == {}
StaleIdsOfEveryFile(db, filename, keep_locations) ==
    {r.id : r \in {x \in db.chunks : x.location \notin keep_locations}}
StaleIdsIgnoringKeep(db, filename, keep_locations) ==
    {r.id : r \in {x \in db.chunks : x.filename = filename}}
StaleIds(db, filename, keep_locations) ==
    IF keep_locations = {}
    THEN {r.id : r \in {x \in db.chunks : x.filename = filename}}
    ELSE {r.id : r \in {x \in db.chunks :
                           x.filename = filename /\ x.location \notin keep_locations}}

delete_stale_chunks(db, has_vec, loaded, filename, keep_locations) ==
    LET ids == StaleIds(db, filename, keep_locations)
    IN  IF ids = {} THEN Result(db, FALSE, 0)
        ELSE IF has_vec /\ ~VecUsable(db, loaded) THEN Result(db, TRUE, 0)
        ELSE Result([db EXCEPT
                       !.vec = IF has_vec THEN {v \in @ : v.id \notin ids} ELSE @,
                       !.chunks = {r \in @ : r.id \notin ids}],
                    FALSE, Cardinality(ids))

\* what the full-text index holds of a knowledge row
FtsRow(r) == [rowid |-> r.id, content |-> r.content, category |-> r.category]

\* INSERT INTO knowledge_fts(knowledge_fts) VALUES ('rebuild')
FtsRebuildSkipped(db) == db
FtsRebuild(db) ==
    [db EXCEPT !.fts = {FtsRow(r) : r \in db.knowledge}, !.ftsRebuilds = @ + 1]

\* the triggers knowledge_ai, knowledge_ad and knowledge_au, which exist once
\* init_knowledge_schema has created them
knowledge_ai(db, new) ==
    IF db.ftsTable THEN [db EXCEPT !.fts = @ \cup {FtsRow(new)}] ELSE db
knowledge_ad(db, old) ==
    IF db.ftsTable THEN [db EXCEPT !.fts = @ \ {FtsRow(old)}] ELSE db
KnowledgeAuKeepingOld(db, old, new) ==
    IF db.ftsTable THEN [db EXCEPT !.fts = @ \cup {FtsRow(new)}] ELSE db
knowledge_au(db, old, new) ==
    IF db.ftsTable THEN [db EXCEPT !.fts = (@ \ {FtsRow(old)}) \cup {FtsRow(new)}] ELSE db

\* an UPDATE of a knowledge row's content and category, and a DELETE of a
\* row, as any client of the database can issue them: the statement and the
\* trigger it fires
update_knowledge(db, id, content, category) ==
    LET old == CHOOSE r \in db.knowledge : r.id = id
        new == [old EXCEPT !.content = content, !.category = category]
    IN  Result(knowledge_au([db EXCEPT !.knowledge = (@ \ {old}) \cup {new}], old, new),
               FALSE, NoneVal)

delete_knowledge(db, id) ==
    LET old == CHOOSE r \in db.knowledge : r.id = id
    IN  Result(knowledge_ad([db EXCEPT !.knowledge = @ \ {old}], old), FALSE, NoneVal)

\* init_knowledge_schema: the knowledge table, guarded by _has_vec
\* knowledge_vec, then knowledge_fts with its triggers, rebuilt when it did
\* not exist before the call
init_knowledge_schema(db, has_vec, loaded) ==
    LET fts_exists == db.ftsTable
        withFts(d) == LET d1 == [d EXCEPT !.ftsTable = TRUE]
                      IN  IF ~fts_exists THEN FtsRebuild(d1) ELSE d1
        db1 == CreateTable(db, "knowledge")
    IN  IF has_vec /\ ~db.kvecTable
        THEN (IF loaded THEN Result(withFts([db1 EXCEPT !.kvecTable = TRUE]), FALSE, NoneVal)
                        ELSE Result(db1, TRUE, NoneVal))
        ELSE Result(withFts(db1), FALSE, NoneVal)

KVecUsable(db, loaded) == loaded /\ db.kvecTable

\* tags is None or a dict (a set of key/value pairs):
\* tags_json = json.dumps(tags) if tags else None
TagsJson(tags) == IF tags.none \/ tags.val = {} THEN NoneVal ELSE Some(tags.val)

\* now is the reading of datetime.now(UTC)
insert_knowledge(db, has_vec, loaded, content, category, tags, embedding, now) ==
    LET row_id == db.kseq + 1
        row == [id |-> row_id, content |-> content, category |-> category,
                tags |-> TagsJson(tags), stored_at |-> now]
        db1 == knowledge_ai([db EXCEPT !.knowledge = @ \cup {row}, !.kseq = row_id], row)
    IN  IF ~has_vec THEN Result(db1, FALSE, row_id)
        ELSE IF ~KVecUsable(db, loaded) THEN Result(db1, TRUE, NoneVal)
        ELSE Result([db1 EXCEPT !.kvec = @ \cup {[id |-> row_id, embedding |-> embedding]}],
                    FALSE, row_id)

\* an embedding is a point of a line; vec0 orders rows by distance to the query
Distance(q, e) == IF q >= e THEN q - e ELSE e - q

\* WHERE embedding MATCH ? AND k = ? ORDER BY distance: the k nearest rows in
\* ascending distance; rows at equal distance come in any order
RECURSIVE Nearest(_, _, _)
Nearest(vecRows, q, k) ==
    IF k = 0 \/ vecRows = {} THEN {<<>>}
    ELSE LET first == {v \in vecRows :
                          \A w \in vecRows :
                              Distance(q, v.embedding) <= Distance(q, w.embedding)}
         IN  UNION {{<<v>> \o rest : rest \in Nearest(vecRows \ {v}, q, k - 1)} :
                       v \in first}

\* JOIN ... ON id: the vector rows that have a text row, in order
Joined(near, rows) == SelectSeq(near, LAMBDA v : \E r \in rows : r.id = v.id)

CodeHits(near, db, q) ==
    LET j == Joined(near, db.chunks)
    IN  [i \in 1..Len(j) |->
            LET c == CHOOSE r \in db.chunks : r.id = j[i].id
            IN  [filename |-> c.filename, location |-> c.location, language |-> c.language,
                 code |-> c.code, score |-> 1 - Distance(q, j[i].embedding)]]

\* search_code: the set of results the query can give
search_code(db, has_vec, loaded, query_embedding, top_k) ==
    IF ~has_vec THEN {Result(db, FALSE, <<>>)}
    ELSE IF ~VecUsable(db, loaded) THEN {Result(db, TRUE, <<>>)}
    ELSE {Result(db, FALSE, CodeHits(near, db, query_embedding)) :
              near \in Nearest(db.vec, query_embedding, top_k)}

\* if category: a None or empty category does not filter
Truthy(category) == ~category.none /\ category.val # ""

KnowledgeHits(near, db, q, category, top_k) ==
    LET j == Joined(near, db.knowledge)
        hits == [i \in 1..Len(j) |->
                    LET kn == CHOOSE r \in db.knowledge : r.id = j[i].id
                    IN  [content |-> kn.content, category |-> kn.category, tags |-> kn.tags,
                         stored_at |-> kn.stored_at,
                         relevance |-> 1 - Distance(q, j[i].embedding)]]
        kept == SelectSeq(hits, LAMBDA h : h.category = category.val)
    IN  IF Truthy(category) THEN SubSeq(kept, 1, Min(top_k, Len(kept))) ELSE hits

\* search_knowledge: the set of results the query can give
search_knowledge(db, has_vec, loaded, query_embedding, category, top_k) ==
    LET effective_top_k == IF Truthy(category) THEN top_k * 3 ELSE top_k
    IN  IF ~has_vec THEN {Result(db, FALSE, <<>>)}
        ELSE IF ~KVecUsable(db, loaded) THEN {Result(db, TRUE, <<>>)}
        ELSE {Result(db, FALSE, KnowledgeHits(near, db, query_embedding, category, top_k)) :
                  near \in Nearest(db.kvec, query_embedding, effective_top_k)}

\* the characters the full-text tokenizer keeps; any other character ends a token
TokenChars == {"a", "b", "c", "e", "f", "n", "o", "t"}

RECURSIVE TokensFrom(_, _, _, _)
TokensFrom(text, i, cur, acc) ==
    LET closed == IF cur = <<>> THEN acc ELSE Append(acc, cur)
    IN  IF i > Len(text) THEN closed
        ELSE IF text[i] \in TokenChars
             THEN TokensFrom(text, i + 1, Append(cur, text[i]), acc)
             ELSE TokensFrom(text, i + 1, <<>>, closed)

\* the tokens of a text, in order
Tokens(text) == TokensFrom(text, 1, <<>>, <<>>)

\* the characters of a category name
CategoryChars(category) ==
    CASE category = "fact" -> <<"f", "a", "c", "t">>
      [] category = "note" -> <<"n", "o", "t", "e">>
      [] OTHER -> <<>>

\* query_text.replace('"', '""')
RECURSIVE EscapeQuotes(_)
EscapeQuotes(text) ==
    IF text = <<>> THEN <<>>
    ELSE (IF Head(text) = "\"" THEN <<"\"", "\"">> ELSE <<Head(text)>>)
             \o EscapeQuotes(Tail(text))

\* fts_query = f'"{escaped}"'
FtsQuery(query_text) == <<"\"">> \o EscapeQuotes(query_text) \o <<"\"">>

\* the text of the quoted string as the full-text engine reads it: the
\* enclosing quotes dropped, each doubled quote one quote
RECURSIVE Unquote(_)
Unquote(text) ==
    IF text = <<>> THEN <<>>
    ELSE IF Head(text) = "\"" /\ Len(text) >= 2 /\ text[2] = "\""
         THEN <<"\"">> \o Unquote(Tail(Tail(text)))
         ELSE <<Head(text)>> \o Unquote(Tail(text))

PhraseText(fts_query) == Unquote(SubSeq(fts_query, 2, Len(fts_query) - 1))

\* a phrase occurs in a column: its tokens are consecutive tokens of the
\* column; a phrase without tokens occurs nowhere
Contains(doc, phrase) ==
    /\ phrase # <<>>
    /\ \E i \in 1..(Len(doc) - Len(phrase) + 1) :
          SubSeq(doc, i, i + Len(phrase) - 1) = phrase

\* knowledge_fts MATCH ?: the phrase occurs in the content or the category column
FtsMatch(f, fts_query) ==
    LET phrase == Tokens(PhraseText(fts_query))
    IN  \/ Contains(Tokens(f.content), phrase)
        \/ Contains(Tokens(CategoryChars(f.category)), phrase)

\* the orders the first k of a set of rows can come in
RECURSIVE Orderings(_, _)
Orderings(rows, k) ==
    IF k = 0 \/ rows = {} THEN {<<>>}
    ELSE UNION {{<<r>> \o rest : rest \in Orderings(rows \ {r}, k - 1)} : r \in rows}

FtsHit(kn) ==
    [id |-> kn.id, content |-> kn.content, category |-> kn.category, tags |-> kn.tags,
     stored_at |-> kn.stored_at, relevance |-> 0]

\* search_knowledge_fts: the set of results the query can give; ORDER BY rank
\* is the engine's ranking, any order of the matching rows
search_knowledge_fts(db, query_text, category, top_k) ==
    LET fts_query == FtsQuery(query_text)
        matched == {kn \in db.knowledge :
                       /\ \E f \in db.fts : f.rowid = kn.id /\ FtsMatch(f, fts_query)
                       /\ Truthy(category) => kn.category = category.val}
    IN  IF ~db.ftsTable THEN {Result(db, TRUE, <<>>)}
        ELSE {Result(db, FALSE, [i \in 1..Len(s) |-> FtsHit(s[i])]) :
                  s \in Orderings(matched, top_k)}

\* rrf_k: int = 60
DefaultRrfK == 60

\* key = f"{entry['stored_at']}:{entry['content'][:80]}"
KeyPrefixLen == 80
EntryKey(entry) ==
    <<entry.stored_at, SubSeq(entry.content, 1, Min(KeyPrefixLen, Len(entry.content)))>>

\* a common denominator of 1/(rrf_k + rank + 1) for the ranks below n
RECURSIVE RrfUnit(_, _)
RrfUnit(rrf_k, n) == IF n = 0 THEN 1 ELSE (rrf_k + n) * RrfUnit(rrf_k, n - 1)

\* 1.0 / (rrf_k + rank + 1), in units of 1/unit
ContributionIgnoringRank(rrf_k, rank, unit) == unit \div (rrf_k + 1)
Contribution(rrf_k, rank, unit) == unit \div (rrf_k + rank + 1)

\* one of the two loops over a ranked list; st is [order, scores, entries]:
\* the keys in the order the dicts received them, scores and entries by key.
\* The vector loop overwrites entries[key], the full-text loop keeps it.
RECURSIVE RrfPass(_, _, _, _, _, _)
RrfPass(st, list, rank, rrf_k, unit, overwrite) ==
    IF rank >= Len(list) THEN st
    ELSE LET entry == list[rank + 1]
             key == EntryKey(entry)
             seen == key \in DOMAIN st.scores
             keys == DOMAIN st.scores \cup {key}
             st1 == [order |-> IF seen THEN st.order ELSE Append(st.order, key),
                     scores |-> [k \in keys |->
                                    IF k = key
                                    THEN (IF seen THEN st.scores[k] ELSE 0)
                                             + Contribution(rrf_k, rank, unit)
                                    ELSE st.scores[k]],
                     entries |-> [k \in keys |->
                                     IF k = key /\ (overwrite \/ ~seen) THEN entry
                                     ELSE st.entries[k]]]
         IN  RrfPass(st1, list, rank + 1, rrf_k, unit, overwrite)

\* sorted(scores.items(), key=lambda x: x[1], reverse=True): highest score
\* first, keys of equal score in the order the dict holds them
RankedKeepingOrder(order, scores) == order
RECURSIVE RankedFrom(_, _)
RankedFrom(order, scores) ==
    IF order = <<>> THEN <<>>
    ELSE LET best == CHOOSE i \in 1..Len(order) :
                        /\ \A j \in 1..Len(order) : scores[order[j]] <= scores[order[i]]
                        /\ \A j \in 1..(i - 1) : scores[order[j]] < scores[order[i]]
             rest == [j \in 1..(Len(order) - 1) |-> IF j < best THEN order[j] ELSE order[j + 1]]
         IN  <<order[best]>> \o RankedFrom(rest, scores)

\* the fusion of a vector list and a full-text list; relevance is the pair
\* <<numerator, denominator>> of the fused score
RrfFuse(vec_results, fts_results, top_k, rrf_k) ==
    LET unit == RrfUnit(rrf_k, Max(Len(vec_results), Len(fts_results)))
        empty == [order |-> <<>>, scores |-> <<>>, entries |-> <<>>]
        st1 == RrfPass(empty, vec_results, 0, rrf_k, unit, TRUE)
        st2 == RrfPass(st1, fts_results, 0, rrf_k, unit, FALSE)
        all == RankedFrom(st2.order, st2.scores)
        ranked == SubSeq(all, 1, Min(top_k, Len(all)))
    IN  [i \in 1..Len(ranked) |->
            [f \in DOMAIN st2.entries[ranked[i]] |->
                IF f = "relevance" THEN <<st2.scores[ranked[i]], unit>>
                ELSE st2.entries[ranked[i]][f]]]

\* search_knowledge_hybrid from the two lists its searches gave
HybridOf(db, vec, fts, top_k, rrf_k) ==
    IF vec.raised \/ fts.raised THEN Result(db, TRUE, <<>>)
    ELSE Result(db, FALSE, RrfFuse(vec.ret, fts.ret, top_k, rrf_k))

\* search_knowledge_hybrid: the set of results the query can give
search_knowledge_hybrid(db, has_vec, loaded, query_embedding, query_text, category, top_k, rrf_k) ==
    {HybridOf(db, vec, fts, top_k, rrf_k) :
        vec \in search_knowledge(db, has_vec, loaded, query_embedding, category, top_k * 2),
        fts \in search_knowledge_fts(db, query_text, category, top_k * 2)}

(***************************************************************************)
(* flows/knowledge.py and the command line's query command.                *)
(***************************************************************************)
\* def query(db_path, query_text, category=None, top_k=10)
query_params == <<"db_path", "query_text", "category", "top_k">>

\* Python binds a call's positional arguments to the first parameters and its
\* keyword arguments to the remaining ones by name; TypeError otherwise
Binds(params, positional, keywords) ==
    /\ positional <= Len(params)
    /\ keywords \subseteq {params[i] : i \in (positional + 1)..Len(params)}

\* the body of query on a fresh connection: init_knowledge_schema, then
\* search_knowledge with the embedding of the query text
query(db, loaded, query_embedding, category, top_k) ==
    LET init == init_knowledge_schema(connect(db), loaded, loaded)
    IN  IF init.raised THEN {Result(init.db, TRUE, <<>>)}
        ELSE search_knowledge(init.db, loaded, loaded, query_embedding, category, top_k)

\* cli.py query: query_knowledge(db_path, query_text, category, top_k, hybrid=hybrid)
cli_query(db, loaded, query_embedding, category, top_k, hybrid) ==
    IF Binds(query_params, 4, {"hybrid"})
    THEN query(db, loaded, query_embedding, category, top_k)
    ELSE {Result(db, TRUE, <<>>)}

(***************************************************************************)
(* flows/codebase.py: index_codebase                                       *)
(*                                                                         *)
(* The source tree maps each path to the state of its file: Absent,        *)
(* Unreadable (read_text raises OSError) or Text(content, parser), where   *)
(* parser is what _get_parser and parser.parse give for the file's         *)
(* language and content in this installation: NoneVal (no parser) or       *)
(* Some(children of the root).  A filename stored in the database is the   *)
(* sequence of the path's components (the "/"-joined string is injective   *)
(* on them).  An embedding is the record [of |-> text]: the embedder is a  *)
(* deterministic function of the text.                                     *)
(***************************************************************************)
_EXT_MAP(suffix) ==
    CASE
         suffix = <<".", "p", "y">> -> Some("python")
      [] suffix = <<".", "c", "s">> -> Some("c_sharp")
      [] suffix = <<".", "r", "s">> -> Some("rust")
      [] suffix = <<".", "t", "s">> -> Some("typescript")
      [] suffix = <<".", "t", "s", "x">> -> Some("tsx")
      [] suffix = <<".", "j", "s">> -> Some("javascript")
      [] suffix = <<".", "j", "s", "x">> -> Some("javascript")
      [] suffix = <<".", "m", "d">> -> Some("markdown")
      [] suffix = <<".", "m", "d", "x">> -> Some("markdown")
      [] suffix = <<".", "j", "s", "o", "n">> -> Some("json")
      [] suffix = <<".", "t", "o", "m", "l">> -> Some("toml")
      [] suffix = <<".", "y", "a", "m", "l">> -> Some("yaml")
      [] suffix = <<".", "y", "m", "l">> -> Some("yaml")
      [] suffix = <<".", "g", "d", "s", "c", "r", "i", "p", "t">> -> Some("gdscript")
      [] OTHER -> NoneVal

\* suffix.lstrip(".")
RECURSIVE LStripDot(_)
LStripDot(x) == IF x # <<>> /\ Head(x) = "." THEN LStripDot(Tail(x)) ELSE x

\* lang = _EXT_MAP.get(suffix.lower(), suffix.lstrip("."))
LangOf(name) ==
    IF _EXT_MAP(Lower(Suffix(name))).none
    THEN [stem |-> LStripDot(Suffix(name))]
    ELSE [name |-> _EXT_MAP(Lower(Suffix(name))).val]

Embed(text) == [of |-> text]

Absent == [kind |-> "absent"]
Unreadable == [kind |-> "unreadable"]
Text(content, parser) == [kind |-> "text", content |-> content, parser |-> parser]

Fn(a, b) == [type |-> "function_definition", start_byte |-> a, end_byte |-> b]

\* the files that come and go, and a hidden file that is always there
PyPath == << <<"a", ".", "p", "y">> >>
CsPath == << <<"M", ".", "C", "S">> >>
HiddenPath == << <<".", "g", "i", "t">>, <<"a", ".", "p", "y">> >>
FlowPaths == {PyPath, CsPath}
AllFlowPaths == FlowPaths \cup {HiddenPath}

\* the states a file of the model takes.  a.py, parsed: whitespace only;
\* one node; two nodes; one node after leading whitespace.  M.CS, for which
\* no parser is installed: whitespace only; two characters.
FlowVersions(p) ==
    {Absent, Unreadable} \cup
    (IF p = PyPath
     THEN { Text(<<" ">>, Some(<<>>)),
            Text(<<"a">>, Some(<<Fn(0, 1)>>)),
            Text(<<"a", "b">>, Some(<<Fn(0, 1), Fn(1, 2)>>)),
            Text(<<" ", "a">>, Some(<<Fn(1, 2)>>)) }
     ELSE { Text(<<" ">>, NoneVal),
            Text(<<"b", "a">>, NoneVal) })

\* the same, and M.CS with one character: a file of one chunk before a file
\* of two, which share a batch
BatchVersions(p) ==
    FlowVersions(p) \cup (IF p = CsPath THEN {Text(<<"b">>, NoneVal)} ELSE {})

Present(t) == {p \in DOMAIN t : t[p].kind # "absent"}

\* chunk_file as index_codebase calls it on a file's content
ChunksOf(file, path) ==
    chunk_file(file.content, _EXT_MAP(Lower(Suffix(path[Len(path)]))), file.parser,
               FlowChunkSize, FlowOverlap)

ZeroStats == [files_processed |-> 0, chunks_indexed |-> 0,
              chunks_deleted |-> 0, chunks_purged |-> 0]

\* embed_texts(texts): one embedding per text, in the order of the texts
EmbedTextsLastFirst(texts) == [i \in 1..Len(texts) |-> Embed(texts[Len(texts) + 1 - i])]
embed_texts(texts) == [i \in 1..Len(texts) |-> Embed(texts[i])]

\* _flush: upsert every buffered chunk with the embedding zip pairs it with;
\* ret counts the upserts made
RECURSIVE FlushFrom(_, _, _, _, _)
FlushFrom(r, has_vec, loaded, chunks, embeddings) ==
    IF chunks = <<>> \/ r.raised THEN r
    ELSE LET c == Head(chunks)
             u == upsert_code_chunk(r.db, has_vec, loaded, c.filename, c.location,
                                    c.lang, c.text, Head(embeddings))
         IN  FlushFrom(Result(u.db, u.raised, r.ret + 1), has_vec, loaded,
                       Tail(chunks), Tail(embeddings))

\* pending_texts, kept beside pending: the texts of the buffered chunks
PendingTexts(chunks) == [i \in 1..Len(chunks) |-> chunks[i].text]

_flush(d, has_vec, loaded, chunks) ==
    FlushFrom(Result(d, FALSE, 0), has_vec, loaded, chunks, embed_texts(PendingTexts(chunks)))

\* the buffer entries of one file's chunks
RECURSIVE Buffered(_, _, _)
Buffered(rel, lang, chunks) ==
    IF chunks = <<>> THEN <<>>
    ELSE <<[filename |-> rel, location |-> Head(chunks).location, lang |-> lang,
            text |-> Head(chunks).text]>> \o Buffered(rel, lang, Tail(chunks))

\* the buffer is flushed when it holds at least batch_size entries
FlushDue(n) == n >= FlowBatchSize

(***************************************************************************)
(* Specification of the index flow: the environment edits the tree, bumps         *)
(* the chunker version and restarts the process between runs; a run is     *)
(* StartRun, one ProcessFile per file of the walk, FinishRun.  An error    *)
(* (a vector statement that raises, the embedder failing) ends the run:    *)
(* the connection is dropped and its open transaction rolled back.         *)
(***************************************************************************)
NoOp == [op |-> "none", args |-> <<>>, raised |-> FALSE, ret |-> NoneVal]

\* the storage specification's variables while another specification runs
StoreIdle == dbKind = "code" /\ lastOp = NoOp

NoObs == [rowsBefore |-> 0, storedBefore |-> NoneVal, rowsAfterPurge |-> 0,
          dbBefore |-> EmptyDb, loads |-> <<>>, batches |-> <<>>, upserts |-> 0, log |-> <<>>]

\* the flow's variables while another specification runs
FlowIdle ==
    /\ _has_vec = FALSE /\ version = "ts1"
    /\ source_tree = [p \in AllFlowPaths |-> Absent]
    /\ conn_db = EmptyDb /\ disk = EmptyDb
    /\ pc = "idle" /\ conn_loaded = FALSE /\ files = <<>> /\ pending = <<>>
    /\ stats = ZeroStats /\ obs = NoObs /\ prev = NoneVal
    /\ runs = 0

Init ==
    /\ _has_vec = FALSE /\ version = "ts1"
    /\ source_tree = [p \in AllFlowPaths |->
                        IF p = HiddenPath THEN Text(<<"b", "a">>, NoneVal) ELSE Absent]
    /\ conn_db = EmptyDb /\ disk = EmptyDb
    /\ pc = "idle" /\ conn_loaded = FALSE /\ files = <<>> /\ pending = <<>>
    /\ stats = ZeroStats /\ obs = NoObs /\ prev = NoneVal
    /\ runs = 0
    /\ ChunkIdle
    /\ WalkIdle /\ CallIdle
    /\ StoreIdle

Between == pc \in {"idle", "done", "failed", "embed_failed", "not_found"}

\* the last run's connection and result are gone once the environment moves on
Forgotten ==
    /\ pc' = "idle" /\ conn_loaded' = FALSE
    /\ stats' = ZeroStats /\ obs' = NoObs /\ prev' = NoneVal

\* the environment changes one file: writes it, deletes it, makes it
\* unreadable; versions[p] is the set of the states of file p
EditWith(versions) ==
    /\ Between
    /\ \E p \in FlowPaths : \E v \in versions[p] :
          /\ v # source_tree[p]
          /\ source_tree' = [source_tree EXCEPT ![p] = v]
    /\ Forgotten
    /\ UNCHANGED <<_has_vec, version, conn_db, disk, files, pending, runs,
                   chunkVars, walkVars, callVars, storeVars>>
EditTree == EditWith([p \in FlowPaths |-> FlowVersions(p)])

\* a new build of the program with CHUNKER_VERSION bumped
BumpVersion ==
    /\ Between /\ version = "ts1"
    /\ version' = "ts2"
    /\ Forgotten
    /\ UNCHANGED <<_has_vec, source_tree, conn_db, disk, files, pending, runs,
                   chunkVars, walkVars, callVars, storeVars>>

\* a new process starts: the module global is False again
NewProcess ==
    /\ Between /\ (_has_vec \/ obs.loads # <<>>)
    /\ _has_vec' = FALSE /\ obs' = [obs EXCEPT !.loads = <<>>]
    /\ UNCHANGED <<version, source_tree, conn_db, disk, pc, conn_loaded, files, pending,
                   stats, prev, runs, chunkVars, walkVars, callVars, storeVars>>

\* what a run has done so far.  obs.log: its stale deletions and upserts in
\* the order of the calls, each with the (filename, location) keys of the
\* rows it removed or wrote; obs.batches: the sizes of the lists given to
\* the embedder; obs.upserts: the number of upserts made
DeleteEvent(rel, before, after) ==
    [op |-> "delete", filename |-> rel,
     keys |-> {<<x.filename, x.location>> : x \in before.chunks \ after.chunks}]
UpsertEvents(chunks, n) ==
    [i \in 1..n |-> [op |-> "upsert", filename |-> chunks[i].filename,
                     keys |-> {<<chunks[i].filename, chunks[i].location>>}]]
Deleting(event) == obs' = [obs EXCEPT !.log = Append(@, event)]
Flushing(events, chunks, upserts) ==
    obs' = [obs EXCEPT !.log = @ \o events \o UpsertEvents(chunks, upserts),
                       !.batches = Append(@, Len(chunks)), !.upserts = @ + upserts]

\* the run ends with an exception: nothing since the last commit survives
Fails(committed) ==
    /\ pc' = "failed" /\ conn_db' = committed /\ disk' = committed
    /\ files' = <<>> /\ pending' = <<>> /\ stats' = ZeroStats

\* embed_texts raises inside _flush: the run ends as with any exception; the
\* statistics are those the run had reached, which no caller receives
EmbedderFailsKeepingWrites(committed) ==
    /\ pc' = "embed_failed" /\ UNCHANGED conn_db /\ disk' = conn_db
    /\ files' = <<>> /\ pending' = <<>> /\ UNCHANGED stats
EmbedderFails(committed) ==
    /\ pc' = "embed_failed" /\ conn_db' = committed /\ disk' = committed
    /\ files' = <<>> /\ pending' = <<>> /\ UNCHANGED stats

\* what the path given as source_path or docs_path names
SourcePaths == {"directory", "file", "missing"}

\* if not root.is_dir(): raise FileNotFoundError, the first statement of a flow
NotADirectoryAfterConnect(zero_stats) ==
    /\ pc' = "not_found" /\ conn_loaded' = FALSE
    /\ conn_db' = init_codebase_schema(connect(disk), _has_vec, FALSE).db
    /\ disk' = conn_db'
    /\ stats' = zero_stats /\ files' = <<>> /\ pending' = <<>>
    /\ obs' = [NoObs EXCEPT !.dbBefore = disk]
    /\ UNCHANGED _has_vec
NotADirectory(zero_stats) ==
    /\ pc' = "not_found" /\ conn_loaded' = FALSE
    /\ stats' = zero_stats /\ files' = <<>> /\ pending' = <<>>
    /\ obs' = [NoObs EXCEPT !.dbBefore = disk]
    /\ UNCHANGED <<_has_vec, conn_db, disk>>

\* index_codebase up to the walk: path check, connect, schemas, version
\* check, walk
StartRun ==
    /\ Between /\ runs < MaxRuns
    /\ runs' = runs + 1
    /\ \E source_path \in SourcePaths, ld \in BOOLEAN :
          LET hv == _ensure_vec(_has_vec, ld)
              r1 == init_codebase_schema(init_metadata_schema(connect(disk)), hv, ld)
              stale == get_metadata(r1.db) # Some(version)
              r2 == IF stale THEN purge_all_code_chunks(r1.db, hv, ld)
                    ELSE Result(r1.db, FALSE, 0)
              d2 == IF stale THEN set_metadata(r2.db, version) ELSE r2.db
          IN  IF source_path # "directory"
              THEN NotADirectory(ZeroStats) /\ prev' = NoneVal
              ELSE
              /\ conn_loaded' = ld /\ _has_vec' = hv
              /\ obs' = [rowsBefore |-> Cardinality(disk.chunks),
                         storedBefore |-> disk.meta, dbBefore |-> disk,
                         rowsAfterPurge |-> Cardinality(d2.chunks), loads |-> <<>>,
                         batches |-> <<>>, upserts |-> 0, log |-> <<>>]
              /\ prev' = IF pc = "done" THEN Some([chunks |-> disk.chunks, stats |-> stats])
                         ELSE NoneVal
              /\ IF r1.raised \/ r2.raised THEN Fails(r1.db)
                 ELSE /\ pc' = "loop" /\ conn_db' = d2 /\ disk' = d2
                      /\ stats' = [ZeroStats EXCEPT !.chunks_purged = r2.ret]
                      /\ \E order \in Listings(Present(source_tree)) :
                            files' = _walk_source_files(Present(source_tree), order)
                      /\ pending' = <<>>
    /\ UNCHANGED <<version, source_tree, chunkVars, walkVars, callVars, storeVars>>

\* continue: a file that cannot be read, or holds only whitespace, leaves the
\* statistics as they are
ContinueCounted(st) == [st EXCEPT !.files_processed = @ + 1]
Continue(st) == st

\* one iteration of the loop over the files
ProcessFile ==
    /\ pc = "loop" /\ files # <<>>
    /\ LET path == Head(files)
           file == source_tree[path]
       IN  IF file.kind = "unreadable" \/ ~StripNonEmpty(file.content)
           THEN /\ files' = Tail(files) /\ stats' = Continue(stats)
                /\ UNCHANGED <<conn_db, disk, pc, pending, obs>>
           ELSE
             LET chunks == ChunksOf(file, path)
                 keep == {chunks[i].location : i \in 1..Len(chunks)}
                 r == delete_stale_chunks(conn_db, _has_vec, conn_loaded, path, keep)
                 st1 == [stats EXCEPT !.chunks_deleted = @ + r.ret,
                                      !.files_processed = @ + 1]
                 buf == pending \o Buffered(path, LangOf(path[Len(path)]), chunks)
             IN  IF r.raised THEN Fails(disk) /\ UNCHANGED obs
                 ELSE IF ~FlushDue(Len(buf))
                 THEN /\ conn_db' = r.db /\ pending' = buf /\ stats' = st1
                      /\ files' = Tail(files)
                      /\ Deleting(DeleteEvent(path, conn_db, r.db))
                      /\ UNCHANGED <<disk, pc>>
                 ELSE \E embedded \in BOOLEAN :
                        LET f == _flush(r.db, _has_vec, conn_loaded, buf)
                        IN  /\ Flushing(<<DeleteEvent(path, conn_db, r.db)>>, buf,
                                        IF embedded THEN f.ret ELSE 0)
                            /\ IF ~embedded THEN EmbedderFails(disk)
                               ELSE IF f.raised THEN Fails(disk)
                               ELSE /\ conn_db' = f.db /\ pending' = <<>>
                                    /\ stats' = [st1 EXCEPT !.chunks_indexed = @ + Len(buf)]
                                    /\ files' = Tail(files)
                                    /\ UNCHANGED <<disk, pc>>
    /\ UNCHANGED <<_has_vec, version, source_tree, conn_loaded, prev, runs,
                   chunkVars, walkVars, callVars, storeVars>>

\* after the loop: the last flush, commit, close
FinishRun ==
    /\ pc = "loop" /\ files = <<>>
    /\ \E embedded \in BOOLEAN :
          LET f == _flush(conn_db, _has_vec, conn_loaded, pending)
          IN  /\ IF pending # <<>>
                 THEN Flushing(<<>>, pending, IF embedded THEN f.ret ELSE 0)
                 ELSE UNCHANGED obs
              /\ IF pending # <<>> /\ ~embedded THEN EmbedderFails(disk)
                 ELSE IF pending # <<>> /\ f.raised THEN Fails(disk)
                 ELSE /\ conn_db' = f.db /\ disk' = f.db /\ pc' = "done"
                      /\ stats' = [stats EXCEPT !.chunks_indexed = @ + Len(pending)]
                      /\ pending' = <<>> /\ files' = <<>>
    /\ UNCHANGED <<_has_vec, version, source_tree, conn_loaded, prev, runs,
                   chunkVars, walkVars, callVars, storeVars>>

Next == EditTree \/ BumpVersion \/ NewProcess \/ StartRun \/ ProcessFile \/ FinishRun

Spec == Init /\ [][Next]_vars

(***************************************************************************)
(* The runs of one build of the program in one process, over trees whose   *)
(* files also fill a batch together.                                       *)
(***************************************************************************)
EditBatches == EditWith([p \in FlowPaths |-> BatchVersions(p)])

NextRuns == EditBatches \/ StartRun \/ ProcessFile \/ FinishRun

SpecRuns == Init /\ [][NextRuns]_vars

(***************************************************************************)
(* Properties of the index flow.                                           *)
(***************************************************************************)
\* the files the run's walk enumerates (the tree does not change during a run)
Walked ==
    LET w == _walk_source_files(Present(source_tree), Sorted(NamesOf(Present(source_tree))))
    IN  {w[i] : i \in 1..Len(w)}

\* read successfully, with non-whitespace content
Indexable(p) ==
    source_tree[p].kind = "text" /\ StripNonEmpty(source_tree[p].content)

\* what chunk_file produces for the file's current content
Produced(p) ==
    IF Indexable(p)
    THEN LET c == ChunksOf(source_tree[p], p)
         IN  {<<c[i].location, c[i].text>> : i \in 1..Len(c)}
    ELSE {}

RowsOf(db, p) == {r \in db.chunks : r.filename = p}

ChunkCount(p) ==
    IF p \in Walked /\ Indexable(p) THEN Len(ChunksOf(source_tree[p], p)) ELSE 0

\* C1: after a completed run made with the vector extension loaded, whatever
\* runs came before, the ids of code_chunks are the ids of code_chunks_vec.
C1_ChunkAndVecIdsAgree ==
    (pc = "done" /\ conn_loaded) =>
        {r.id : r \in conn_db.chunks} = {v.id : v \in conn_db.vec}

\* C2: after a completed run, the rows stored under a file that was read and
\* has non-whitespace content are exactly the chunks chunk_file produced for
\* its content: one row per location, with that chunk's text, and no other.
C2_RowsAreTheChunks ==
    pc = "done" =>
        \A p \in Walked :
            Indexable(p) =>
                /\ {<<r.location, r.code>> : r \in RowsOf(conn_db, p)} = Produced(p)
                /\ Cardinality(RowsOf(conn_db, p)) = Len(ChunksOf(source_tree[p], p))

\* a completed run over a file that lost a chunk since the run before
C2_Witness ==
    /\ pc = "done" /\ runs = 2
    /\ Indexable(PyPath) /\ PyPath \in Walked
    /\ Cardinality(RowsOf(conn_db, PyPath)) = 1
    /\ stats.chunks_deleted = 1

\* C3: after a completed run, no row remains under the name of a file the
\* walk enumerated and the run read with a location the run did not produce
\* for it, whether or not the file yielded a chunk.
C3_NoStaleRowForEnumeratedFile ==
    pc = "done" =>
        \A p \in Walked :
            source_tree[p].kind = "text" =>
                \A r \in RowsOf(conn_db, p) :
                    r.location \in {c[1] : c \in Produced(p)}

\* C4: the second of two consecutive completed runs over an unchanged tree,
\* with the same version, deletes nothing, processes the same files, indexes
\* the same number of chunks, and leaves every row as it was, id included.
C4_SecondRunIdempotent ==
    (pc = "done" /\ ~prev.none) =>
        /\ stats.chunks_deleted = 0
        /\ stats.files_processed = prev.val.stats.files_processed
        /\ stats.chunks_indexed = prev.val.stats.chunks_indexed
        /\ conn_db.chunks = prev.val.chunks

C4_Witness ==
    /\ pc = "done" /\ ~prev.none
    /\ stats.files_processed = 2 /\ stats.chunks_indexed >= 3

\* C5: a completed run that found a stored version other than the compiled
\* one (or none) removed every row before the loop, reports as purged the
\* rows there were and as indexed the chunks of the tree, and stored the
\* compiled version; a run that found the compiled version purged nothing.
C5_VersionPurge ==
    pc = "done" =>
        IF obs.storedBefore # Some(version)
        THEN /\ obs.rowsAfterPurge = 0
             /\ stats.chunks_purged = obs.rowsBefore
             /\ stats.chunks_indexed = ChunkCount(PyPath) + ChunkCount(CsPath)
             /\ conn_db.meta = Some(version)
        ELSE /\ obs.rowsAfterPurge = obs.rowsBefore
             /\ stats.chunks_purged = 0

\* a run after a version bump that purged rows and indexed the tree again
C5_Witness ==
    /\ pc = "done" /\ version = "ts2" /\ obs.storedBefore = Some("ts1")
    /\ obs.rowsBefore > 0 /\ stats.chunks_purged > 0 /\ stats.chunks_indexed > 0

\* C6: after a completed run that found the compiled version stored, no row
\* of code_chunks or code_chunks_vec belongs to a file that is no longer in
\* the tree.
C6_DeletedFileRowsGone ==
    (pc = "done" /\ obs.storedBefore = Some(version)) =>
        \A p \in FlowPaths :
            source_tree[p].kind = "absent" =>
                /\ RowsOf(conn_db, p) = {}
                /\ \A v \in conn_db.vec :
                       \A r \in RowsOf(disk, p) : v.id # r.id

\* index_codebase as a function of the database it finds, when the embedder
\* answers every batch.  Lines 81-97: the schema, the version check, the
\* purge and its commit.
BeforeLoop(db, ver, has_vec, loaded) ==
    LET hv == _ensure_vec(has_vec, loaded)
        r1 == init_codebase_schema(init_metadata_schema(connect(db)), hv, loaded)
        stale == get_metadata(r1.db) # Some(ver)
        r2 == IF stale THEN purge_all_code_chunks(r1.db, hv, loaded)
              ELSE Result(r1.db, FALSE, 0)
    IN  IF r1.raised THEN r1
        ELSE IF r2.raised THEN r2
        ELSE Result(IF stale THEN set_metadata(r2.db, ver) ELSE r2.db, FALSE, NoneVal)

\* lines 104-132: the loop over the files and the flush after it
RECURSIVE FileLoop(_, _, _, _, _, _)
FileLoop(r, buffer, todo, tree, has_vec, loaded) ==
    IF r.raised THEN r
    ELSE IF todo = <<>>
    THEN (IF buffer = <<>> THEN r ELSE _flush(r.db, has_vec, loaded, buffer))
    ELSE LET path == Head(todo)
             file == tree[path]
         IN  IF file.kind = "unreadable" \/ ~StripNonEmpty(file.content)
             THEN FileLoop(r, buffer, Tail(todo), tree, has_vec, loaded)
             ELSE LET chunks == ChunksOf(file, path)
                      keep == {chunks[i].location : i \in 1..Len(chunks)}
                      d == delete_stale_chunks(r.db, has_vec, loaded, path, keep)
                      buf == buffer \o Buffered(path, LangOf(path[Len(path)]), chunks)
                  IN  IF d.raised THEN d
                      ELSE IF ~FlushDue(Len(buf))
                      THEN FileLoop(d, buf, Tail(todo), tree, has_vec, loaded)
                      ELSE FileLoop(_flush(d.db, has_vec, loaded, buf), <<>>, Tail(todo),
                                    tree, has_vec, loaded)

index_codebase(db, tree, ver, has_vec, loaded) ==
    FileLoop(BeforeLoop(db, ver, has_vec, loaded), <<>>,
             _walk_source_files(Present(tree), Sorted(NamesOf(Present(tree)))),
             tree, _ensure_vec(has_vec, loaded), loaded)

\* C21: when the embedder fails on a batch, index_codebase ends with that
\* error and nothing the run did in its file loop is committed: the database
\* is the one committed before the loop.  A run that completes leaves what
\* index_codebase computes with a working embedder, and whenever a run that
\* never failed completes from the database the failed run found, a re-run
\* on the same tree completes from what the failed run left, with the same
\* code_chunks table.
C21_EmbedderFailureRollsBack ==
    /\ pc = "done" =>
          LET ref == index_codebase(obs.dbBefore, source_tree, version, _has_vec, conn_loaded)
          IN  ~ref.raised /\ disk = ref.db
    /\ pc = "embed_failed" =>
          LET start == BeforeLoop(obs.dbBefore, version, _has_vec, conn_loaded)
              ref == index_codebase(obs.dbBefore, source_tree, version, _has_vec, conn_loaded)
              again == index_codebase(disk, source_tree, version, _has_vec, conn_loaded)
          IN  /\ ~start.raised /\ disk = start.db /\ conn_db = disk
              /\ ~ref.raised => (~again.raised /\ again.db.chunks = ref.db.chunks)

\* the embedder failed on the last batch, after the run had upserted an
\* earlier batch and deleted a stale row; a run that never failed changes
\* the table
C21_Witness ==
    /\ pc = "embed_failed" /\ stats.chunks_indexed > 0 /\ stats.chunks_deleted > 0
    /\ LET ref == index_codebase(obs.dbBefore, source_tree, version, _has_vec, conn_loaded)
       IN  ~ref.raised /\ ref.db.chunks # disk.chunks

(***************************************************************************)
(* flows/documents.py: index_documents.  The documents folder is flat: a   *)
(* document is absent, fails to convert, or converts to a markdown text.   *)
(* The specification of the flow has the shape of the code index flow's:   *)
(* the environment edits the folder and restarts the process between runs; *)
(* a run is DocsStartRun, one DocsFile per candidate file, DocsFinishRun.  *)
(***************************************************************************)
DOC_EXTENSIONS ==
    { <<".", "p", "d", "f">>, <<".", "d", "o", "c", "x">>, <<".", "p", "p", "t", "x">>,
      <<".", "x", "l", "s", "x">>, <<".", "h", "t", "m", "l">> }

_should_include_doc(name) == Lower(Suffix(name)) \in DOC_EXTENSIONS

Failing == [kind |-> "failing"]

PdfPath == << <<"a", ".", "p", "d", "f">> >>
DocxPath == << <<"b", ".", "d", "o", "c", "x">> >>
DocPaths == {PdfPath, DocxPath}
AllDocPaths == DocPaths \cup {PyPath}

\* the states a document takes: absent, not convertible, or converted to the
\* empty text, a blank, one character, two characters
DocVersions ==
    {Absent, Failing, Text(<<>>, NoneVal), Text(<<" ">>, NoneVal),
     Text(<<"a">>, NoneVal), Text(<<"a", "b">>, NoneVal)}

\* sorted(p for p in docs_root.rglob("*") if p.is_file() and _should_include_doc(p))
RECURSIVE PathsOf(_)
PathsOf(names) == IF names = <<>> THEN <<>> ELSE << <<Head(names)>> >> \o PathsOf(Tail(names))
CandidateDocs(present) ==
    PathsOf(Sorted({p[1] : p \in {q \in present : _should_include_doc(q[1])}}))

DocZeroStats == [files_processed |-> 0, files_skipped |-> 0,
                 chunks_indexed |-> 0, chunks_deleted |-> 0]

\* stats["files_skipped"] += 1
SkipFileUncounted(st) == st
SkipFile(st) == [st EXCEPT !.files_skipped = @ + 1]

InitDocs ==
    /\ _has_vec = FALSE /\ version = "ts1"
    /\ source_tree = [p \in AllDocPaths |->
                        IF p = PyPath THEN Text(<<"a">>, NoneVal) ELSE Absent]
    /\ conn_db = EmptyDb /\ disk = EmptyDb
    /\ pc = "idle" /\ conn_loaded = FALSE /\ files = <<>> /\ pending = <<>>
    /\ stats = DocZeroStats /\ obs = NoObs /\ prev = NoneVal
    /\ runs = 0
    /\ ChunkIdle /\ WalkIdle /\ CallIdle /\ StoreIdle

\* the environment changes one document
DocsEdit ==
    /\ Between
    /\ \E p \in DocPaths : \E v \in DocVersions :
          /\ v # source_tree[p]
          /\ source_tree' = [source_tree EXCEPT ![p] = v]
    /\ pc' = "idle" /\ conn_loaded' = FALSE /\ stats' = DocZeroStats /\ obs' = NoObs
    /\ UNCHANGED <<_has_vec, version, conn_db, disk, files, pending, prev, runs,
                   chunkVars, walkVars, callVars, storeVars>>

DocsFails(committed) ==
    /\ pc' = "failed" /\ conn_db' = committed /\ disk' = committed
    /\ files' = <<>> /\ pending' = <<>> /\ stats' = DocZeroStats

\* index_documents up to the listing: path check, connect, schema,
\* candidate files
DocsStartRun ==
    /\ Between /\ runs < MaxRuns
    /\ runs' = runs + 1
    /\ \E docs_path \in SourcePaths, ld \in BOOLEAN :
          LET hv == _ensure_vec(_has_vec, ld)
              r1 == init_codebase_schema(connect(disk), hv, ld)
          IN  IF docs_path # "directory" THEN NotADirectory(DocZeroStats)
              ELSE
              /\ conn_loaded' = ld /\ _has_vec' = hv
              /\ obs' = [NoObs EXCEPT !.dbBefore = disk]
              /\ IF r1.raised THEN DocsFails(r1.db)
                 ELSE /\ pc' = "loop" /\ conn_db' = r1.db /\ disk' = r1.db
                      /\ stats' = DocZeroStats
                      /\ files' = CandidateDocs(Present(source_tree))
                      /\ pending' = <<>>
    /\ UNCHANGED <<version, source_tree, prev, chunkVars, walkVars, callVars, storeVars>>

\* one iteration of the loop over the candidate files
DocsFile ==
    /\ pc = "loop" /\ files # <<>>
    /\ LET path == Head(files)
           doc == source_tree[path]
       IN  IF doc.kind = "failing" \/ ~StripNonEmpty(doc.content)
           THEN /\ stats' = SkipFile(stats) /\ files' = Tail(files)
                /\ UNCHANGED <<conn_db, disk, pc, pending, obs>>
           ELSE
             LET chunks == split_simple(doc.content, FlowChunkSize, FlowOverlap)
                 keep == {chunks[i].location : i \in 1..Len(chunks)}
                 r == delete_stale_chunks(conn_db, _has_vec, conn_loaded, path, keep)
                 st1 == [stats EXCEPT !.chunks_deleted = @ + r.ret,
                                      !.files_processed = @ + 1]
                 buf == pending \o Buffered(path, [name |-> "document"], chunks)
             IN  IF r.raised THEN DocsFails(disk) /\ UNCHANGED obs
                 ELSE IF ~FlushDue(Len(buf))
                 THEN /\ conn_db' = r.db /\ pending' = buf /\ stats' = st1
                      /\ files' = Tail(files)
                      /\ Deleting(DeleteEvent(path, conn_db, r.db))
                      /\ UNCHANGED <<disk, pc>>
                 ELSE \E embedded \in BOOLEAN :
                        LET f == _flush(r.db, _has_vec, conn_loaded, buf)
                        IN  /\ Flushing(<<DeleteEvent(path, conn_db, r.db)>>, buf,
                                        IF embedded THEN f.ret ELSE 0)
                            /\ IF ~embedded \/ f.raised THEN DocsFails(disk)
                               ELSE /\ conn_db' = f.db /\ pending' = <<>>
                                    /\ stats' = [st1 EXCEPT !.chunks_indexed = @ + Len(buf)]
                                    /\ files' = Tail(files)
                                    /\ UNCHANGED <<disk, pc>>
    /\ UNCHANGED <<_has_vec, version, source_tree, conn_loaded, prev, runs,
                   chunkVars, walkVars, callVars, storeVars>>

\* after the loop: the last flush, commit, close
DocsFinishRun ==
    /\ pc = "loop" /\ files = <<>>
    /\ \E embedded \in BOOLEAN :
          LET f == _flush(conn_db, _has_vec, conn_loaded, pending)
          IN  /\ IF pending # <<>>
                 THEN Flushing(<<>>, pending, IF embedded THEN f.ret ELSE 0)
                 ELSE UNCHANGED obs
              /\ IF pending # <<>> /\ (~embedded \/ f.raised)
                 THEN DocsFails(disk)
                 ELSE /\ conn_db' = f.db /\ disk' = f.db /\ pc' = "done"
                      /\ stats' = [stats EXCEPT !.chunks_indexed = @ + Len(pending)]
                      /\ pending' = <<>> /\ files' = <<>>
    /\ UNCHANGED <<_has_vec, version, source_tree, conn_loaded, prev, runs,
                   chunkVars, walkVars, callVars, storeVars>>

NextDocs == DocsEdit \/ NewProcess \/ DocsStartRun \/ DocsFile \/ DocsFinishRun

SpecDocs == InitDocs /\ [][NextDocs]_vars

\* the candidate files of the run and those the loop has gone past
Candidates ==
    LET c == CandidateDocs(Present(source_tree))
    IN  {c[i] : i \in 1..Len(c)}
Visited == Candidates \ {files[i] : i \in 1..Len(files)}

\* the conversion raises, or its text is empty or whitespace only
Unconvertible(p) ==
    \/ source_tree[p].kind = "failing"
    \/ source_tree[p].kind = "text"
         /\ \A i \in 1..Len(source_tree[p].content) :
                source_tree[p].content[i] \in Whitespace

\* C22: while index_documents runs and when it has returned, every candidate
\* file the loop has gone past is counted once: in files_skipped when its
\* conversion raised or gave an empty or whitespace-only text, and then the
\* run went on and the rows stored under its name are those the run found;
\* in files_processed otherwise.  Files that are not documents are counted
\* in neither.
C22_EveryFileCountedOnce ==
    pc \in {"loop", "done"} =>
        /\ stats.files_skipped = Cardinality({p \in Visited : Unconvertible(p)})
        /\ stats.files_processed = Cardinality({p \in Visited : ~Unconvertible(p)})
        /\ Visited \subseteq DocPaths
        /\ \A p \in Visited :
               Unconvertible(p) => RowsOf(conn_db, p) = RowsOf(obs.dbBefore, p)
        /\ pc = "done" => Visited = Candidates

\* a completed run that skipped a document whose rows an earlier run had
\* stored, and processed the other
C22_Witness ==
    /\ pc = "done"
    /\ stats.files_skipped = 1 /\ stats.files_processed = 1
    /\ \E p \in Candidates : Unconvertible(p) /\ RowsOf(disk, p) # {}
    /\ PyPath \in Present(source_tree)

\* C38: index_documents initializes the metadata schema and records the
\* compiled-in chunker version before indexing, so that a completed run
\* never leaves chunks in a database whose stored version is absent or
\* different.
C38_DocsVersionCurrent ==
    (pc = "done" /\ disk.chunks # {}) =>
        /\ "metadata" \in disk.tables
        /\ get_metadata(disk) = Some(version)

(***************************************************************************)
(* Specification of both index flows: a database is the index of a source  *)
(* tree, filled by index_codebase, or of a documents folder, filled by     *)
(* index_documents.                                                        *)
(***************************************************************************)
OnDocs == DOMAIN source_tree = AllDocPaths

InitIndex == Init \/ InitDocs

NextIndex == (~OnDocs /\ Next) \/ (OnDocs /\ NextDocs)

SpecIndex == InitIndex /\ [][NextIndex]_vars

\* C23: a call of index_codebase or index_documents with a path that is not
\* an existing directory ends with FileNotFoundError and opens no database:
\* the database file (or its absence), its tables, the stored version and
\* every row are as before, and the extension was not looked for.
C23_NotADirectoryTouchesNothing ==
    [][(runs' # runs /\ pc' = "not_found") =>
          /\ disk' = disk /\ conn_db' = conn_db
          /\ _has_vec' = _has_vec /\ ~conn_loaded']_vars

\* index_documents was called first with a path that is not a directory:
\* there is no database file
C23_Witness ==
    /\ pc = "not_found" /\ OnDocs /\ runs = 1
    /\ ~disk.file /\ disk.tables = {}

(***************************************************************************)
(* Specification of the walker: Init draws a tree, the actions apply the   *)
(* filter to a path and the walker to the tree.                            *)
(***************************************************************************)
DirNames == { <<"b", "u", "i", "l", "d">>,
              <<"_", "a", "r", "t", "i", "f", "a", "c", "t", "s">>,
              <<"b", "i", "n">>,
              <<".", "g", "i", "t">> }
FileNames == { <<"a", ".", "p", "y">>,
               <<"M", ".", "C", "S">>,
               <<".", "h", ".", "p", "y">>,
               <<"x", ".", "p", "n", "g">> }

DirPaths == UNION {[1..k -> DirNames] : k \in 0..MaxDirs}
Paths == {Append(d, f) : d \in DirPaths, f \in FileNames}
Trees == {{p, q} : p \in Paths, q \in Paths}
\* the file system lists the names in ascending or in descending order: a
\* directory of a tree of two files has at most two entries of a kind, so
\* these are all the orders a listing can have
Orders == Listings({Append(d, f) : d \in {<<n>> : n \in DirNames}, f \in FileNames})

InitWalk ==
    /\ walkIn \in [fn : {"_should_include"}, path : Paths]
                   \cup {[fn |-> "_walk_source_files", tree |-> t, order |-> o] :
                            t \in Trees, o \in Orders}
    /\ walkOut = NoneVal
    /\ ChunkIdle /\ CallIdle
    /\ FlowIdle /\ StoreIdle

CallShouldInclude ==
    /\ walkOut.none /\ walkIn.fn = "_should_include"
    /\ walkOut' = Some(_should_include(walkIn.path))
    /\ UNCHANGED <<walkIn, chunkVars, flowVars, storeVars, callVars>>

CallWalk ==
    /\ walkOut.none /\ walkIn.fn = "_walk_source_files"
    /\ walkOut' = Some(_walk_source_files(walkIn.tree, walkIn.order))
    /\ UNCHANGED <<walkIn, chunkVars, flowVars, storeVars, callVars>>

NextWalk == CallShouldInclude \/ CallWalk

SpecWalk == InitWalk /\ [][NextWalk]_vars

\* what the call decided about path p: accepted by the filter, or returned by the walk
Seen(p) == /\ ~walkOut.none
           /\ IF walkIn.fn = "_should_include" THEN walkIn.path = p
              ELSE p \in walkIn.tree
Accepted(p) == IF walkIn.fn = "_should_include" THEN walkOut.val
               ELSE \E i \in 1..Len(walkOut.val) : walkOut.val[i] = p

NameBlocked(name) == name \in EXCLUDED_PATTERNS \/ StartsWithDot(name)
AllowedExtension(p) == Lower(Suffix(p[Len(p)])) \in CODE_EXTENSIONS

\* C8 as stated: a file is accepted if and only if no ancestor directory
\* component is excluded or hidden and its lowercased extension is allowed
\* (the file's own name counts only through its extension).
C8_AncestorsOnly ==
    \A p \in Paths :
        Seen(p) => (Accepted(p) <=> /\ \A i \in 1..(Len(p) - 1) : ~NameBlocked(p[i])
                                    /\ AllowedExtension(p))

\* C8 amended: a file is accepted by _should_include, and returned by
\* _walk_source_files, if and only if no component of its root-relative
\* path, the file's own name included, is in the excluded set or begins
\* with ".", and its lowercased extension is in the allow-list.
C8_AllComponents ==
    \A p \in Paths :
        Seen(p) => (Accepted(p) <=> /\ \A i \in 1..Len(p) : ~NameBlocked(p[i])
                                    /\ AllowedExtension(p))

\* C8 witness: the walker ran over a tree holding a file that it returned
\* thanks to the lowercasing of its extension, and a hidden file with an
\* allowed extension that it did not return
C8_Witness ==
    /\ ~walkOut.none /\ walkIn.fn = "_walk_source_files"
    /\ \E p, q \in walkIn.tree :
          /\ Accepted(p) /\ Suffix(p[Len(p)]) \notin CODE_EXTENSIONS
          /\ ~Accepted(q) /\ AllowedExtension(q)
          /\ \A i \in 1..(Len(q) - 1) : ~NameBlocked(q[i])

\* C9: no file below the directory path build/_artifacts is accepted by
\* _should_include or returned by _walk_source_files.
UnderArtifacts(p) ==
    \E i \in 1..(Len(p) - 2) :
        /\ p[i] = <<"b", "u", "i", "l", "d">>
        /\ p[i + 1] = <<"_", "a", "r", "t", "i", "f", "a", "c", "t", "s">>
C9_ArtifactsExcluded ==
    \A p \in Paths : (Seen(p) /\ UnderArtifacts(p)) => ~Accepted(p)

\* C27: the walk of a tree is the same sequence under every order in which
\* the file system lists the entries; in it the files of one directory
\* appear in ascending name order, and the files below two subdirectories
\* of one directory appear in the ascending order of the subdirectories'
\* names.
CommonLen(p, q) == CHOOSE k \in 0..Min(Len(p), Len(q)) :
                      /\ SubSeq(p, 1, k) = SubSeq(q, 1, k)
                      /\ k < Min(Len(p), Len(q)) => p[k + 1] # q[k + 1]
SameKind(p, q) == (Len(p) = CommonLen(p, q) + 1) <=> (Len(q) = CommonLen(p, q) + 1)
C27_WalkSortedAnyListing ==
    (~walkOut.none /\ walkIn.fn = "_walk_source_files") =>
        /\ \A o \in Orders : _walk_source_files(walkIn.tree, o) = walkOut.val
        /\ \A i, j \in 1..Len(walkOut.val) :
              LET p == walkOut.val[i]
                  q == walkOut.val[j]
              IN  (i < j /\ SameKind(p, q)) =>
                      LessName(p[CommonLen(p, q) + 1], q[CommonLen(p, q) + 1])

\* C27 witness: the walk returned two files although the file system listed
\* the entry leading to the second before the entry leading to the first
ListedAt(name) == CHOOSE i \in 1..Len(walkIn.order) : walkIn.order[i] = name
C27_Witness ==
    /\ ~walkOut.none /\ walkIn.fn = "_walk_source_files"
    /\ Len(walkOut.val) = 2
    /\ LET p == walkOut.val[1]
           q == walkOut.val[2]
       IN  /\ SameKind(p, q)
           /\ ListedAt(q[CommonLen(p, q) + 1]) < ListedAt(p[CommonLen(p, q) + 1])

(***************************************************************************)
(* Specification of the chunker: Init draws a call, the actions apply it.  *)
(***************************************************************************)
Spans(n) == {sp \in [start_byte : 0..n, end_byte : 0..n] : sp.start_byte < sp.end_byte}

\* children of a root: ordered, non-overlapping spans of the content, typed
Ordered(ns) == \A i \in 1..(Len(ns) - 1) : ns[i].end_byte <= ns[i + 1].start_byte

\* a language without definition types never reads a node's type: its
\* parses are drawn with the one type "other"
TypesRead(language) == IF _DEFINITION_TYPES(language) = {} THEN {"other"} ELSE NodeTypes

Parses(content, language) ==
    LET Node == {[type |-> t, start_byte |-> sp.start_byte, end_byte |-> sp.end_byte] :
                    t \in TypesRead(language), sp \in Spans(Len(content))}
    IN  {ns \in UNION {[1..k -> Node] : k \in 0..MaxNodes} : Ordered(ns)}

ChunkSizes == 1..MaxChunk
Overlaps == 0..MaxChunk

SimpleCalls ==
    [fn : {"split_simple"}, content : Strings(MaxLen),
     chunk_size : ChunkSizes, chunk_overlap : Overlaps]

\* split_ast hands chunk_overlap to split_simple and reads it nowhere else:
\* its calls are drawn without an overlap and with one
AstOverlaps == {0, 1}

AstCalls(fn) ==
    UNION {[fn : {fn}, content : {c}, language : {Some(l)},
            parser : {NoneVal} \cup {Some(p) : p \in Parses(c, l)},
            chunk_size : ChunkSizes, chunk_overlap : AstOverlaps] :
              c \in Strings(MaxLen), l \in Languages}

\* chunk_file(content, None, ...) and chunk_file(content, "", ...): no
\* language, the parser is never asked
NoLanguageCalls ==
    [fn : {"chunk_file"}, content : Strings(MaxLen), language : {NoneVal, Some("")},
     parser : {NoneVal}, chunk_size : ChunkSizes, chunk_overlap : Overlaps]

InitChunk ==
    /\ chunkIn \in SimpleCalls \cup AstCalls("split_ast") \cup AstCalls("chunk_file")
                    \cup NoLanguageCalls
    /\ chunkOut = NoneVal /\ loop = NoneVal /\ _LANGUAGE_CACHE = {}
    /\ WalkIdle /\ CallIdle
    /\ FlowIdle /\ StoreIdle

CallSplitSimple ==
    /\ chunkOut.none /\ chunkIn.fn = "split_simple"
    /\ chunkOut' = Some(split_simple(chunkIn.content, chunkIn.chunk_size,
                                     chunkIn.chunk_overlap))
    /\ UNCHANGED <<chunkIn, loop, _LANGUAGE_CACHE, walkVars, callVars, flowVars, storeVars>>

CallSplitAst ==
    /\ chunkOut.none /\ chunkIn.fn = "split_ast"
    /\ chunkOut' = Some(split_ast(chunkIn.content, chunkIn.language.val, chunkIn.parser,
                                  chunkIn.chunk_size, chunkIn.chunk_overlap))
    /\ UNCHANGED <<chunkIn, loop, _LANGUAGE_CACHE, walkVars, callVars, flowVars, storeVars>>

CallChunkFile ==
    /\ chunkOut.none /\ chunkIn.fn = "chunk_file"
    /\ chunkOut' = Some(chunk_file(chunkIn.content, chunkIn.language, chunkIn.parser,
                                   chunkIn.chunk_size, chunkIn.chunk_overlap))
    /\ UNCHANGED <<chunkIn, loop, _LANGUAGE_CACHE, walkVars, callVars, flowVars, storeVars>>

NextChunk == CallSplitSimple \/ CallSplitAst \/ CallChunkFile

SpecChunk == InitChunk /\ [][NextChunk]_vars

(***************************************************************************)
(* Specification of the while loop of split_simple, one iteration a step:  *)
(* Init draws a call whose content is longer than chunk_size, so that the  *)
(* loop is entered.  An iteration is allowed while the count of iterations *)
(* is at most len(content), which caps the count in the model.             *)
(***************************************************************************)
InitLoop ==
    /\ chunkIn \in {c \in SimpleCalls : Len(c.content) > c.chunk_size}
    /\ chunkOut = NoneVal
    /\ loop = [start |-> 0, idx |-> 0, chunks |-> <<>>, iterations |-> 0]
    /\ _LANGUAGE_CACHE = {}
    /\ WalkIdle /\ CallIdle /\ FlowIdle /\ StoreIdle

\* while start < len(content): one pass of the body
LoopIteration ==
    /\ chunkOut.none
    /\ loop.start < Len(chunkIn.content)
    /\ loop.iterations <= Len(chunkIn.content)
    /\ LET st == SimpleStep(chunkIn.content, chunkIn.chunk_size, chunkIn.chunk_overlap,
                            [start |-> loop.start, idx |-> loop.idx, chunks |-> loop.chunks])
       IN  loop' = [start |-> st.start, idx |-> st.idx, chunks |-> st.chunks,
                    iterations |-> loop.iterations + 1]
    /\ UNCHANGED <<chunkIn, chunkOut, _LANGUAGE_CACHE, walkVars, callVars, flowVars, storeVars>>

\* return chunks
LoopReturn ==
    /\ chunkOut.none
    /\ ~(loop.start < Len(chunkIn.content))
    /\ chunkOut' = Some(loop.chunks)
    /\ UNCHANGED <<chunkIn, loop, _LANGUAGE_CACHE, walkVars, callVars, flowVars, storeVars>>

NextLoop == LoopIteration \/ LoopReturn

SpecLoop == InitLoop /\ [][NextLoop]_vars

Returned ==
    IF chunkOut.none THEN <<>>
    ELSE IF chunkIn.fn = "split_ast"
         THEN (IF chunkOut.val.none THEN <<>> ELSE chunkOut.val.val)
         ELSE chunkOut.val

\* C10: in every list of chunks returned by split_simple, split_ast or
\* chunk_file, the chunk_index part of the i-th location (counting from 0) is
\* i: the indices are 0, 1, ..., n-1 in list order, so the locations of one
\* result are pairwise distinct.
C10_IndicesContiguous ==
    /\ \A i \in 1..Len(Returned) : Returned[i].location[1] = i - 1
    /\ \A i, j \in 1..Len(Returned) :
          i # j => Returned[i].location # Returned[j].location

\* C10 witness: split_simple returned two or more chunks and skipped a
\* whitespace-only slice between two of them (a chunk starts beyond the end
\* of the chunk before it)
C10_Witness ==
    /\ ~chunkOut.none /\ chunkIn.fn = "split_simple" /\ chunkIn.chunk_overlap = 0
    /\ Len(Returned) >= 2
    /\ \E i \in 1..(Len(Returned) - 1) :
          Returned[i + 1].location[2] >
              Returned[i].location[2] + Len(Returned[i].text)

\* positions of the content inside the slice [start, end) of a returned chunk
Covered ==
    {p \in 0..(Len(chunkIn.content) - 1) :
        \E i \in 1..Len(Returned) :
            /\ Returned[i].location[2] <= p
            /\ p < Returned[i].location[2] + Len(Returned[i].text)}

\* C11: for chunk_size >= 1 and 0 <= overlap < chunk_size, every chunk
\* split_simple returns is the slice of the content at its start, and every
\* position holding a non-whitespace character lies in one of these slices.
C11_NonWhitespaceCovered ==
    (/\ ~chunkOut.none /\ chunkIn.fn = "split_simple"
     /\ chunkIn.chunk_overlap < chunkIn.chunk_size) =>
        /\ \A i \in 1..Len(Returned) :
              Returned[i].text =
                  Slice(chunkIn.content, Returned[i].location[2],
                        Returned[i].location[2] + Len(Returned[i].text))
        /\ \A p \in 0..(Len(chunkIn.content) - 1) :
              chunkIn.content[p + 1] \notin Whitespace => p \in Covered

\* windows that overlap, a whitespace-only slice dropped, a chunk kept
C11_Witness ==
    /\ ~chunkOut.none /\ chunkIn.fn = "split_simple"
    /\ chunkIn.chunk_overlap >= 1 /\ chunkIn.chunk_overlap < chunkIn.chunk_size
    /\ Len(chunkIn.content) > chunkIn.chunk_size
    /\ StripNonEmpty(chunkIn.content)
    /\ \E p \in 0..(Len(chunkIn.content) - 1) : p \notin Covered

\* the nodes split_ast collected for the call
Collected ==
    IF chunkIn.fn = "split_ast" /\ ~chunkIn.parser.none
    THEN _collect_top_level_nodes(chunkIn.parser.val, chunkIn.language.val)
    ELSE <<>>

\* the content between a node's first and last byte
WholeText(node) == Slice(chunkIn.content, node.start_byte, node.end_byte)

\* split_ast returned the grouping of the nodes, not the text splitter's
\* result: some collected node holds a non-whitespace character
AstMode ==
    /\ ~chunkOut.none /\ chunkIn.fn = "split_ast"
    /\ \E i \in 1..Len(Collected) : StripNonEmpty(WholeText(Collected[i]))

\* the ways to cut the collected nodes into runs of consecutive nodes: g[i]
\* is the number of the run of node i
Runs ==
    LET n == Len(Collected)
    IN  {g \in [1..n -> 1..n] :
            /\ n > 0 => g[1] = 1
            /\ \A i \in 1..(n - 1) : g[i + 1] \in {g[i], g[i] + 1}}

RunMembers(g, k) == {i \in 1..Len(Collected) : g[i] = k}
RunFirst(g, k) == CHOOSE i \in RunMembers(g, k) : \A j \in RunMembers(g, k) : i <= j
RunText(g, k) ==
    JoinNewline([j \in 1..Cardinality(RunMembers(g, k)) |->
                    WholeText(Collected[RunFirst(g, k) + j - 1])])

\* the runs with a non-whitespace character, in order
KeptRuns(g) ==
    SelectSeq([k \in 1..g[Len(Collected)] |-> k], LAMBDA k : StripNonEmpty(RunText(g, k)))

Blank(text) == \A i \in 1..Len(text) : text[i] \in Whitespace

\* C24: for every content of length at most chunk_size, empty and
\* whitespace-only contents included, split_simple returns exactly one chunk,
\* whose text is the whole content and whose location is "0:0".
C24_SmallContentOneChunk ==
    (/\ ~chunkOut.none /\ chunkIn.fn = "split_simple"
     /\ Len(chunkIn.content) <= chunkIn.chunk_size) =>
        Returned = <<[text |-> chunkIn.content, location |-> <<0, 0>>]>>

\* a whitespace-only content that fits in one chunk
C24_Witness ==
    /\ ~chunkOut.none /\ chunkIn.fn = "split_simple"
    /\ chunkIn.content = <<" ">> /\ chunkIn.chunk_size >= 1
    /\ Len(Returned) = 1

\* C25: for a content longer than chunk_size no chunk split_simple returns
\* has an empty or whitespace-only text, and no chunk split_ast builds from
\* grouped nodes has one.
C25_NoBlankChunk ==
    /\ (/\ ~chunkOut.none /\ chunkIn.fn = "split_simple"
        /\ Len(chunkIn.content) > chunkIn.chunk_size) =>
           \A i \in 1..Len(Returned) : ~Blank(Returned[i].text)
    /\ AstMode => \A i \in 1..Len(Returned) : ~Blank(Returned[i].text)

\* split_ast collected a whitespace-only node and then a node that did not
\* fit with it: the first group was dropped and the second returned
C25_Witness ==
    /\ AstMode /\ Len(Collected) = 2 /\ Len(Returned) = 1
    /\ Blank(WholeText(Collected[1])) /\ ~Blank(WholeText(Collected[2]))
    /\ Returned[1].text = WholeText(Collected[2])

\* the nodes collected for a chunk_file call that reaches the parse
HasLanguage == ~chunkIn.language.none /\ chunkIn.language.val # ""
FileNodes ==
    IF chunkIn.fn = "chunk_file" /\ HasLanguage /\ ~chunkIn.parser.none
    THEN _collect_top_level_nodes(chunkIn.parser.val, chunkIn.language.val)
    ELSE <<>>

\* the text of the consecutive nodes i..j of the call, joined by newlines
NodesText(i, j) ==
    JoinNewline([k \in 1..(j - i + 1) |-> WholeText(FileNodes[i + k - 1])])

\* C26: chunk_file returns what split_simple returns for the same content,
\* chunk_size and overlap when the language is None or empty, when there is
\* no parser, when no node is collected, or when every collected node is
\* whitespace only (the grouping has no non-empty chunk); otherwise it returns
\* the grouping: non-blank chunks, each the text of consecutive collected
\* nodes at the start byte of the first.  In the fallback cases a content
\* that fits in one chunk gives a list of one chunk.
C26_ChunkFileFallback ==
    (~chunkOut.none /\ chunkIn.fn = "chunk_file") =>
        IF \/ ~HasLanguage \/ chunkIn.parser.none \/ FileNodes = <<>>
           \/ \A i \in 1..Len(FileNodes) : Blank(WholeText(FileNodes[i]))
        THEN /\ Returned = split_simple(chunkIn.content, chunkIn.chunk_size,
                                        chunkIn.chunk_overlap)
             /\ Len(chunkIn.content) <= chunkIn.chunk_size => Len(Returned) = 1
        ELSE /\ Returned # <<>>
             /\ \A c \in 1..Len(Returned) :
                    /\ ~Blank(Returned[c].text)
                    /\ \E i \in 1..Len(FileNodes) : \E j \in i..Len(FileNodes) :
                           /\ Returned[c].text = NodesText(i, j)
                           /\ Returned[c].location[2] = FileNodes[i].start_byte

\* a parse whose collected nodes are all whitespace: the text splitter's
\* result for a content that has other text
C26_Witness ==
    /\ ~chunkOut.none /\ chunkIn.fn = "chunk_file"
    /\ FileNodes # <<>> /\ \A i \in 1..Len(FileNodes) : Blank(WholeText(FileNodes[i]))
    /\ ~Blank(chunkIn.content) /\ Len(chunkIn.content) > chunkIn.chunk_size
    /\ Len(Returned) >= 2

\* the cuts of the collected nodes into runs whose kept runs are the chunks
\* split_ast returned, text and start byte
GroupingsReturned ==
    {g \in Runs :
        /\ Len(Returned) = Len(KeptRuns(g))
        /\ \A j \in 1..Len(Returned) :
              /\ Returned[j].text = RunText(g, KeptRuns(g)[j])
              /\ Returned[j].location[2] =
                     Collected[RunFirst(g, KeptRuns(g)[j])].start_byte}

\* C35: in AST mode every returned chunk that groups two or more nodes has a
\* text, the nodes joined by single newlines, of at most chunk_size
\* characters.
C35_GroupWithinChunkSize ==
    AstMode =>
        \A g \in GroupingsReturned : \A j \in 1..Len(Returned) :
            Cardinality(RunMembers(g, KeptRuns(g)[j])) >= 2 =>
                Len(Returned[j].text) <= chunkIn.chunk_size

(***************************************************************************)
(* Specification of the parser cache: a process calls split_ast and        *)
(* chunk_file again and again.  The call's parser field is what            *)
(* tree_sitter_language_pack.get_parser and the parse would give if the    *)
(* load were attempted: NoneVal when get_parser raises, Some(children of   *)
(* the root) when it loads.  chunkOut holds the call's result and the      *)
(* number of load attempts the call made.                                  *)
(***************************************************************************)
\* _get_parser with the cache read and written; load is the outcome of the
\* attempt if one is made
GetParserLoadingAgain(cache, language, load) ==
    [parser |-> load,
     cache |-> (cache \ {<<language, TRUE>>, <<language, FALSE>>})
                  \cup {<<language, ~load.none>>},
     attempts |-> 1]
_get_parser(cache, language, load) ==
    IF <<language, FALSE>> \in cache
    THEN [parser |-> NoneVal, cache |-> cache, attempts |-> 0]
    ELSE [parser |-> load,
          cache |-> (cache \ {<<language, TRUE>>, <<language, FALSE>>})
                       \cup {<<language, ~load.none>>},
          attempts |-> 1]

\* the contents of the repeated calls: with two characters a parse can give
\* a result the text splitter does not give
CachedContents == {<<"a">>, <<"a", "a">>}

CachedCalls(fn) ==
    UNION {[fn : {fn}, content : {c}, language : {Some(l)},
            parser : {NoneVal} \cup {Some(p) : p \in Parses(c, l)},
            chunk_size : ChunkSizes, chunk_overlap : {0}] :
              c \in CachedContents, l \in Languages}

InitParser ==
    /\ chunkIn = NoneVal /\ chunkOut = NoneVal /\ loop = NoneVal
    /\ _LANGUAGE_CACHE = {}
    /\ WalkIdle /\ CallIdle /\ FlowIdle /\ StoreIdle

\* split_ast(content, language, chunk_size, chunk_overlap) in the process
CachedSplitAst ==
    \E call \in CachedCalls("split_ast") :
        LET g == _get_parser(_LANGUAGE_CACHE, call.language.val, call.parser)
        IN  /\ chunkIn' = call
            /\ chunkOut' = Some([ret |-> split_ast(call.content, call.language.val,
                                                   g.parser, call.chunk_size,
                                                   call.chunk_overlap),
                                 attempts |-> g.attempts])
            /\ _LANGUAGE_CACHE' = g.cache
            /\ UNCHANGED <<loop, walkVars, callVars, flowVars, storeVars>>

\* chunk_file(content, language, chunk_size, chunk_overlap) in the process
CachedChunkFile ==
    \E call \in CachedCalls("chunk_file") :
        LET g == _get_parser(_LANGUAGE_CACHE, call.language.val, call.parser)
        IN  /\ chunkIn' = call
            /\ chunkOut' = Some([ret |-> chunk_file(call.content, call.language,
                                                    g.parser, call.chunk_size,
                                                    call.chunk_overlap),
                                 attempts |-> g.attempts])
            /\ _LANGUAGE_CACHE' = g.cache
            /\ UNCHANGED <<loop, walkVars, callVars, flowVars, storeVars>>

NextParser == CachedSplitAst \/ CachedChunkFile

SpecParser == InitParser /\ [][NextParser]_vars

\* the languages whose load has failed in the process
FailedLanguages == {l \in Languages : <<l, FALSE>> \in _LANGUAGE_CACHE}

\* C36: once a load attempt for a language has failed, every later call for
\* that language makes no load attempt and leaves the language failed:
\* split_ast returns None and chunk_file returns what split_simple returns,
\* whatever a new attempt would have given.
C36_NegativeSticky ==
    [][/\ FailedLanguages \subseteq {l \in Languages : <<l, FALSE>> \in _LANGUAGE_CACHE'}
       /\ chunkIn'.language.val \in FailedLanguages =>
             /\ chunkOut'.val.attempts = 0
             /\ chunkIn'.fn = "split_ast" => chunkOut'.val.ret = NoneVal
             /\ chunkIn'.fn = "chunk_file" =>
                    chunkOut'.val.ret = split_simple(chunkIn'.content, chunkIn'.chunk_size,
                                                     chunkIn'.chunk_overlap)
      ]_<<chunkIn, chunkOut, _LANGUAGE_CACHE>>

\* python failed to load earlier; a chunk_file call for which the load would
\* now succeed, with a parse that gives another result, made no attempt and
\* returned the text splitter's single chunk
C36_Witness ==
    /\ ~chunkOut.none /\ chunkIn.fn = "chunk_file"
    /\ chunkIn.language = Some("python") /\ <<"python", FALSE>> \in _LANGUAGE_CACHE
    /\ chunkOut.val.attempts = 0
    /\ ~chunkIn.parser.none
    /\ chunkOut.val.ret # chunk_file(chunkIn.content, chunkIn.language, chunkIn.parser,
                                     chunkIn.chunk_size, chunkIn.chunk_overlap)


(***************************************************************************)
(* Specification of the storage layer: a process opens connections to one  *)
(* database, the extension loading or not on each, prepares the schema of  *)
(* that database as the flows do, and calls the storage functions.  A      *)
(* statement that raises leaves the connection open with the statements    *)
(* run before it in its transaction.                                       *)
(***************************************************************************)
StoreLocations == {<<0, 0>>, <<1, 1>>}
StoreCodes == {<<"a">>, <<"b">>}
StoreContents == {<<"a">>, <<"a", " ", "b">>, <<"!">>}
StoreCategories == {"fact", "note"}
StoreTags == {NoneVal, Some({}), Some({<<"k", "v">>})}
\* embeddings are points 0 and 1 of a line
Vectors == {0, 1}
TopKs == 1..MaxTopK
\* readings of the clock: it does not go back, and two calls can read the same
Times == {0, 1}

\* a database file holds the code index or an agent's knowledge
InitStore ==
    /\ FlowIdle
    /\ dbKind \in {"code", "knowledge"} /\ lastOp = NoOp
    /\ ChunkIdle
    /\ WalkIdle /\ CallIdle

\* what the caller of a storage function observes: the call, whether it
\* raised and what it returned; its arguments where a property reads them
Called(op, args, r) == [op |-> op, args |-> args, raised |-> r.raised, ret |-> r.ret]

StoreUnchanged ==
    UNCHANGED <<_has_vec, version, source_tree, disk, pc, conn_loaded, files, pending,
                stats, obs, prev, runs, chunkVars, walkVars, callVars, dbKind>>

\* connect, then the database's schema as the flows prepare it; a schema
\* that raises ends the caller and the connection with it
Connect ==
    /\ pc = "idle"
    /\ \E ld \in BOOLEAN :
          LET hv == _ensure_vec(_has_vec, ld)
              r == IF dbKind = "code" THEN init_codebase_schema(connect(conn_db), hv, ld)
                   ELSE init_knowledge_schema(connect(conn_db), hv, ld)
          IN  /\ _has_vec' = hv /\ conn_db' = r.db
              /\ IF r.raised
                 THEN /\ lastOp' = Called("init_schema", <<>>, r)
                      /\ UNCHANGED <<pc, conn_loaded>>
                 ELSE /\ lastOp' = Called("connect", <<>>, r)
                      /\ pc' = "open" /\ conn_loaded' = ld
    /\ UNCHANGED <<version, source_tree, disk, files, pending, stats, obs, prev, runs,
                   chunkVars, walkVars, callVars, dbKind>>

\* conn.commit(); conn.close()
Close ==
    /\ pc = "open"
    /\ pc' = "idle" /\ conn_loaded' = FALSE /\ lastOp' = NoOp
    /\ UNCHANGED <<_has_vec, version, source_tree, conn_db, disk, files, pending,
                   stats, obs, prev, runs, chunkVars, walkVars, callVars, dbKind>>

Upsert ==
    /\ pc = "open" /\ dbKind = "code"
    /\ \E f \in FlowPaths, l \in StoreLocations, c \in StoreCodes, e \in Vectors :
          /\ (\E r \in conn_db.chunks : r.filename = f /\ r.location = l) \/ conn_db.seq < MaxIds
          /\ LET r == upsert_code_chunk(conn_db, _has_vec, conn_loaded, f, l,
                                        LangOf(f[Len(f)]), c, e)
             IN  conn_db' = r.db /\ lastOp' = Called("upsert_code_chunk", <<f, l, c, e>>, r)
    /\ StoreUnchanged

DeleteStale ==
    /\ pc = "open" /\ dbKind = "code"
    /\ \E f \in FlowPaths, keep \in SUBSET StoreLocations :
          LET r == delete_stale_chunks(conn_db, _has_vec, conn_loaded, f, keep)
          IN  conn_db' = r.db /\ lastOp' = Called("delete_stale_chunks", <<f, keep>>, r)
    /\ StoreUnchanged

Purge ==
    /\ pc = "open" /\ dbKind = "code"
    /\ LET r == purge_all_code_chunks(conn_db, _has_vec, conn_loaded)
       IN  conn_db' = r.db /\ lastOp' = Called("purge_all_code_chunks", <<>>, r)
    /\ StoreUnchanged

SearchCode ==
    /\ pc = "open" /\ dbKind = "code"
    /\ \E q \in Vectors, k \in TopKs :
          \E r \in search_code(conn_db, _has_vec, conn_loaded, q, k) :
              conn_db' = r.db /\ lastOp' = Called("search_code", <<>>, r)
    /\ StoreUnchanged

InsertKnowledge ==
    /\ pc = "open" /\ dbKind = "knowledge" /\ conn_db.kseq < MaxIds
    /\ \E c \in StoreContents, cat \in StoreCategories, t \in StoreTags, e \in Vectors,
          now \in Times :
          /\ \A kn \in conn_db.knowledge : kn.stored_at <= now
          /\ LET r == insert_knowledge(conn_db, _has_vec, conn_loaded, c, cat, t, e, now)
             IN  conn_db' = r.db
                 /\ lastOp' = Called("insert_knowledge", <<>>, r)
    /\ StoreUnchanged

SearchKnowledge ==
    /\ pc = "open" /\ dbKind = "knowledge"
    /\ \E q \in Vectors, k \in TopKs,
          cat \in {NoneVal, Some("")} \cup {Some(c) : c \in StoreCategories} :
          \E r \in search_knowledge(conn_db, _has_vec, conn_loaded, q, cat, k) :
              conn_db' = r.db /\ lastOp' = Called("search_knowledge", <<>>, r)
    /\ StoreUnchanged

\* UPDATE knowledge SET content = ?, category = ? WHERE id = ?
UpdateKnowledge ==
    /\ pc = "open" /\ dbKind = "knowledge"
    /\ \E old \in conn_db.knowledge, c \in StoreContents, cat \in StoreCategories :
          LET r == update_knowledge(conn_db, old.id, c, cat)
          IN  conn_db' = r.db
              /\ lastOp' = Called("update_knowledge", <<old.id, old.content, c, cat>>, r)
    /\ StoreUnchanged

\* DELETE FROM knowledge WHERE id = ?
DeleteKnowledge ==
    /\ pc = "open" /\ dbKind = "knowledge"
    /\ \E old \in conn_db.knowledge :
          LET r == delete_knowledge(conn_db, old.id)
          IN  conn_db' = r.db
              /\ lastOp' = Called("delete_knowledge", <<old.id, old.content>>, r)
    /\ StoreUnchanged

NextStore ==
    \/ Connect \/ Close \/ NewProcess
    \/ Upsert \/ DeleteStale \/ Purge \/ SearchCode \/ InsertKnowledge \/ SearchKnowledge
    \/ UpdateKnowledge \/ DeleteKnowledge

SpecStore == InitStore /\ [][NextStore]_vars

(***************************************************************************)
(* One connection to a fresh code index, its schema prepared with the      *)
(* extension as the process found it, and the calls that write chunks.     *)
(***************************************************************************)
InitCode ==
    /\ FlowIdle /\ ChunkIdle /\ WalkIdle /\ CallIdle
    /\ dbKind = "code" /\ lastOp = NoOp

OpenCode ==
    /\ pc = "idle" /\ lastOp.op = "none"
    /\ \E ld \in BOOLEAN :
          LET r == init_codebase_schema(connect(conn_db), ld, ld)
          IN  /\ _has_vec' = ld /\ conn_loaded' = ld /\ conn_db' = r.db
              /\ pc' = "open" /\ lastOp' = Called("connect", <<>>, r)
    /\ UNCHANGED <<version, source_tree, disk, files, pending, stats, obs, prev, runs,
                   chunkVars, walkVars, callVars, dbKind>>

NextCode == OpenCode \/ Upsert \/ DeleteStale \/ Purge

SpecCode == InitCode /\ [][NextCode]_vars

(***************************************************************************)
(* One connection to a fresh knowledge database and the statements that    *)
(* change the knowledge table, each firing its trigger.                    *)
(***************************************************************************)
InitFts ==
    /\ FlowIdle /\ ChunkIdle /\ WalkIdle /\ CallIdle
    /\ dbKind = "knowledge" /\ lastOp = NoOp

OpenKnowledge ==
    /\ pc = "idle" /\ lastOp.op = "none"
    /\ \E ld \in BOOLEAN :
          LET r == init_knowledge_schema(connect(conn_db), ld, ld)
          IN  /\ _has_vec' = ld /\ conn_loaded' = ld /\ conn_db' = r.db
              /\ pc' = "open" /\ lastOp' = Called("connect", <<>>, r)
    /\ UNCHANGED <<version, source_tree, disk, files, pending, stats, obs, prev, runs,
                   chunkVars, walkVars, callVars, dbKind>>

\* insert_knowledge of an entry without tags; the index reads neither its
\* embedding nor its time
InsertEntry ==
    /\ pc = "open" /\ dbKind = "knowledge" /\ conn_db.kseq < MaxIds
    /\ "knowledge" \in conn_db.tables
    /\ \E c \in StoreContents, cat \in StoreCategories :
          LET r == insert_knowledge(conn_db, _has_vec, conn_loaded, c, cat, NoneVal, 0, 0)
          IN  conn_db' = r.db /\ lastOp' = Called("insert_knowledge", <<>>, r)
    /\ StoreUnchanged

NextFts == OpenKnowledge \/ InsertEntry \/ UpdateKnowledge \/ DeleteKnowledge

SpecFts == InitFts /\ [][NextFts]_vars

\* C34: in the log of a run, an upsert of a file's chunk comes after the
\* stale deletion of that file, no two stale deletions have the same
\* filename, a stale deletion removes rows of its own filename only, and no
\* key that was upserted is removed by a later deletion.
C34_DeleteBeforeUpsert ==
    LET log == obs.log
    IN  \A i, j \in 1..Len(log) :
            /\ (log[j].op = "upsert") =>
                  \E k \in 1..(j - 1) : log[k].op = "delete" /\ log[k].filename = log[j].filename
            /\ (i < j /\ log[i].op = "delete" /\ log[j].op = "delete") =>
                  log[i].filename # log[j].filename
            /\ (log[j].op = "delete") => \A key \in log[j].keys : key[1] = log[j].filename
            /\ (i < j /\ log[i].op = "upsert" /\ log[j].op = "delete") =>
                  /\ log[i].filename # log[j].filename
                  /\ log[i].keys \cap log[j].keys = {}

\* C34 witness: a completed run flushed the first file's chunks and
\* afterwards deleted a stale row of the second file, whose chunk it then
\* upserted
C34_Witness ==
    /\ pc = "done" /\ Len(obs.log) >= 5
    /\ obs.log[1].op = "delete" /\ obs.log[2].op = "upsert" /\ obs.log[3].op = "upsert"
    /\ obs.log[4].op = "delete" /\ obs.log[4].keys # {}
    /\ obs.log[5].op = "upsert" /\ obs.log[5].filename = obs.log[4].filename

\* C33: a completed run has skipped the files it could not read: it counts
\* as processed the files it read with non-whitespace content, as deleted
\* the stale rows of those files, as indexed their chunks; the rows of an
\* unreadable file are those the run found after its version check; the
\* files that were read have the rows of their chunks.
StaleFound(db, p) == {r \in RowsOf(db, p) : r.location \notin {c[1] : c \in Produced(p)}}
C33_UnreadableFileSkipped ==
    pc = "done" =>
        LET start == BeforeLoop(obs.dbBefore, version, _has_vec, conn_loaded).db
            read == {p \in Walked : Indexable(p)}
        IN  /\ stats.files_processed = Cardinality(read)
            /\ stats.chunks_indexed = ChunkCount(PyPath) + ChunkCount(CsPath)
            /\ stats.chunks_deleted = Cardinality(UNION {StaleFound(start, p) : p \in read})
            /\ \A p \in Walked :
                  source_tree[p].kind = "unreadable" => RowsOf(conn_db, p) = RowsOf(start, p)
            /\ \A p \in read :
                  {<<r.location, r.code>> : r \in RowsOf(conn_db, p)} = Produced(p)

\* C33 witness: the first file of the walk could not be read and keeps the
\* rows of an earlier run; the file after it was processed and a stale row
\* of it deleted
C33_Witness ==
    /\ pc = "done" /\ source_tree[CsPath].kind = "unreadable"
    /\ RowsOf(conn_db, CsPath) # {}
    /\ stats.files_processed = 1 /\ stats.chunks_deleted = 1
    /\ RowsOf(conn_db, PyPath) # {}

\* C32: after a completed index_codebase run, chunks_indexed is the number
\* of upserts the run made, the number of texts it gave the embedder and the
\* sum of the chunk counts of the files it processed, and, with the vector
\* extension, every row of a processed file has the embedding of its own
\* text.
SumOf(sizes) == LET RECURSIVE Sum(_)
                    Sum(q) == IF q = <<>> THEN 0 ELSE Head(q) + Sum(Tail(q))
                IN  Sum(sizes)
C32_EveryChunkUpsertedOnce ==
    pc = "done" =>
        /\ stats.chunks_indexed = obs.upserts
        /\ stats.chunks_indexed = SumOf(obs.batches)
        /\ stats.chunks_indexed = SumOf([i \in 1..Len(Sorted({p[1] : p \in FlowPaths})) |->
                                           ChunkCount(<<Sorted({p[1] : p \in FlowPaths})[i]>>)])
        /\ _has_vec =>
              \A p \in Walked : \A r \in RowsOf(conn_db, p) :
                  Indexable(p) => [id |-> r.id, embedding |-> Embed(r.code)] \in conn_db.vec

\* C32 witness: a completed run with the extension that flushed a batch
\* holding one file's chunk and another file's two chunks, of differing texts
C32_Witness ==
    /\ pc = "done" /\ _has_vec /\ obs.batches = <<3>>
    /\ stats.chunks_indexed = 3 /\ Cardinality(conn_db.vec) = 3
    /\ Cardinality({v.embedding : v \in conn_db.vec}) > 1

\* C31: in both index flows the buffer never holds more than batch_size
\* entries between two files, and no call of the embedder is given more than
\* batch_size texts.
C31_BatchWithinBatchSize ==
    /\ Len(pending) <= FlowBatchSize
    /\ \A i \in 1..Len(obs.batches) : obs.batches[i] <= FlowBatchSize

(***************************************************************************)
(* The connections of a process: connect alone, then the schema calls of   *)
(* the caller's choice.  obs.loads is the history of the process: whether  *)
(* the extension load of each connect it made succeeded.                   *)
(***************************************************************************)
MaxOpens == 3
MaxCalls == 3

\* a knowledge database written before the full-text table and its triggers
\* existed: the knowledge table and its rows, nothing else
RECURSIVE LegacyKnowledge(_)
LegacyKnowledge(contents) ==
    IF contents = <<>> THEN CreateTable(connect(EmptyDb), "knowledge")
    ELSE insert_knowledge(LegacyKnowledge(Tail(contents)), FALSE, FALSE,
                          Head(contents), "fact", NoneVal, 0, 0).db
LegacyContents == {<<>>, <<<<"a">>>>, <<<<"a", " ", "b">>, <<"a">>>>}

\* disk keeps the database as the process found it
InitConn ==
    /\ ChunkIdle /\ WalkIdle /\ CallIdle
    /\ dbKind \in {"code", "knowledge"} /\ lastOp = NoOp
    /\ conn_db \in {EmptyDb} \cup (IF dbKind = "knowledge"
                                    THEN {LegacyKnowledge(cs) : cs \in LegacyContents}
                                    ELSE {})
    /\ disk = conn_db
    /\ _has_vec = FALSE /\ version = "ts1"
    /\ source_tree = [p \in AllFlowPaths |-> Absent]
    /\ pc = "idle" /\ conn_loaded = FALSE /\ files = <<>> /\ pending = <<>>
    /\ stats = ZeroStats /\ obs = NoObs /\ prev = NoneVal
    /\ runs = 0

\* connect(db_path): the file, the pragmas, _ensure_vec
Open ==
    /\ pc = "idle" /\ Len(obs.loads) < MaxOpens
    /\ \E ld \in BOOLEAN :
          /\ _has_vec' = _ensure_vec(_has_vec, ld) /\ conn_loaded' = ld
          /\ conn_db' = connect(conn_db) /\ pc' = "open"
          /\ obs' = [obs EXCEPT !.loads = Append(@, ld)]
          /\ lastOp' = Called("connect", <<>>, Result(conn_db, FALSE, NoneVal))
    /\ UNCHANGED <<version, source_tree, disk, files, pending, stats, prev, runs,
                   chunkVars, walkVars, callVars, dbKind>>

SchemaCalls == IF dbKind = "code" THEN {"init_metadata_schema", "init_codebase_schema"}
               ELSE {"init_knowledge_schema"}

InitSchema ==
    /\ pc = "open"
    /\ \E fn \in SchemaCalls :
          LET r == CASE fn = "init_metadata_schema" ->
                            Result(init_metadata_schema(conn_db), FALSE, NoneVal)
                     [] fn = "init_codebase_schema" ->
                            init_codebase_schema(conn_db, _has_vec, conn_loaded)
                     [] OTHER -> init_knowledge_schema(conn_db, _has_vec, conn_loaded)
          IN  conn_db' = r.db /\ lastOp' = Called(fn, <<>>, r)
    /\ StoreUnchanged

NextConn == Open \/ InitSchema \/ InsertEntry \/ Close \/ NewProcess

SpecConn == InitConn /\ [][NextConn]_vars

C30_RebuildOnFirstInitOnly ==
    [][(lastOp'.op = "init_knowledge_schema" /\ ~lastOp'.raised) =>
          /\ conn_db'.ftsRebuilds # conn_db.ftsRebuilds <=> ~conn_db.ftsTable
          /\ conn_db'.ftsRebuilds = 1
          /\ ~conn_db.ftsTable =>
                \A r \in conn_db.knowledge : FtsRow(r) \in conn_db'.fts]_vars

\* C30 witness: a database found with two rows and no full-text table has
\* been initialized on a second connection or later, without another
\* rebuild, and the index holds the rows it was found with
C30_Witness ==
    /\ lastOp.op = "init_knowledge_schema" /\ ~lastOp.raised
    /\ Cardinality(disk.knowledge) = 2 /\ ~disk.ftsTable
    /\ Len(obs.loads) >= 2
    /\ conn_db.ftsRebuilds = 1
    /\ \A r \in disk.knowledge : FtsRow(r) \in conn_db.fts

\* C7: on a connection whose extension load failed, whatever connections the
\* process opened before, upsert_code_chunk, insert_knowledge,
\* delete_stale_chunks and purge_all_code_chunks do not fail, and search_code
\* and search_knowledge return the empty list.
C7_NoFailureWithoutExtension ==
    (pc = "open" /\ ~conn_loaded) =>
        /\ lastOp.op \in {"upsert_code_chunk", "insert_knowledge", "delete_stale_chunks",
                          "purge_all_code_chunks", "search_code", "search_knowledge"}
               => ~lastOp.raised
        /\ lastOp.op \in {"search_code", "search_knowledge"} => lastOp.ret = <<>>

\* C14: a delete_stale_chunks(filename, keep) that returns has deleted exactly
\* the code_chunks rows of that filename whose location is not in keep (all
\* of the filename's rows when keep is empty), returns how many they were,
\* and leaves the rows of other filenames and the kept rows as they were.
C14_DeleteStaleExact ==
    [][(lastOp'.op = "delete_stale_chunks" /\ ~lastOp'.raised) =>
          LET filename == lastOp'.args[1]
              keep == lastOp'.args[2]
              gone == {r \in conn_db.chunks :
                          r.filename = filename /\ r.location \notin keep}
          IN  /\ conn_db'.chunks = conn_db.chunks \ gone
              /\ lastOp'.ret = Cardinality(gone)]_vars

\* a call with a non-empty keep that deleted one row of the file and kept another
C14_Witness ==
    /\ lastOp.op = "delete_stale_chunks" /\ ~lastOp.raised
    /\ lastOp.ret = 1 /\ lastOp.args[2] # {}
    /\ \E r \in conn_db.chunks :
          r.filename = lastOp.args[1] /\ r.location \in lastOp.args[2]

\* C28: a purge_all_code_chunks that returns gives the number of code_chunks
\* rows there were and leaves code_chunks empty and, on a connection that
\* has the vector extension, code_chunks_vec empty as well.
C28_PurgeEmptiesBoth ==
    [][(lastOp'.op = "purge_all_code_chunks" /\ ~lastOp'.raised) =>
          /\ lastOp'.ret = Cardinality(conn_db.chunks)
          /\ conn_db'.chunks = {}
          /\ (_has_vec /\ conn_loaded) => conn_db'.vec = {}]_<<conn_db, lastOp.op>>

\* the code_chunks rows with a key
KeyRows(db, filename, location) ==
    {r \in db.chunks : r.filename = filename /\ r.location = location}

\* C15: after upsert_code_chunk its key has one row; when the key existed the
\* number of rows and the row's id are kept, language and code are the new
\* ones and at most one vector row has the id; the same upsert applied again
\* changes nothing; no two rows share (filename, location).
C15_UpsertIdempotent ==
    [][lastOp'.op = "upsert_code_chunk" =>
          LET filename == lastOp'.args[1]
              location == lastOp'.args[2]
              language == LangOf(filename[Len(filename)])
              code == lastOp'.args[3]
              old == KeyRows(conn_db, filename, location)
              new == KeyRows(conn_db', filename, location)
              again == upsert_code_chunk(conn_db', _has_vec, conn_loaded, filename,
                                         location, language, code, lastOp'.args[4])
          IN  /\ \A r \in new : r.language = language /\ r.code = code
              /\ old # {} =>
                    /\ Cardinality(conn_db'.chunks) = Cardinality(conn_db.chunks)
                    /\ {r.id : r \in new} = {r.id : r \in old}
              /\ \A r \in new : Cardinality({v \in conn_db'.vec : v.id = r.id}) <= 1
              /\ again.db = conn_db'
              /\ \A r1, r2 \in conn_db'.chunks :
                    (r1.filename = r2.filename /\ r1.location = r2.location) => r1 = r2
              /\ \A r1, r2 \in conn_db'.chunks : r1.id = r2.id => r1 = r2]_vars

\* an upsert that replaced the code of the older of two rows and its vector
C15_Witness ==
    /\ lastOp.op = "upsert_code_chunk" /\ ~lastOp.raised
    /\ conn_db.seq = 2 /\ Cardinality(conn_db.chunks) = 2
    /\ \E r \in KeyRows(conn_db, lastOp.args[1], lastOp.args[2]) :
          /\ r.id = 1 /\ r.code = lastOp.args[3]
          /\ [id |-> 1, embedding |-> lastOp.args[4]] \in conn_db.vec

(***************************************************************************)
(* Specification of the knowledge searches: a connection to a knowledge    *)
(* database that earlier stores have filled, on which one search is made.  *)
(***************************************************************************)
KnowContents == {<<"a">>, <<"a", " ", "b">>}
QueryTexts == {<<"b">>, <<"\"">>}
CategoryFilters == {NoneVal, Some("")} \cup {Some(c) : c \in StoreCategories}

\* what one store gives insert_knowledge
Entries(contents, times) ==
    [content : contents, category : StoreCategories, embedding : Vectors, now : times]

SeqsUpTo(S, n) == UNION {[1..m -> S] : m \in 0..n}

\* many entries that differ in category and embedding
LeanStores == SeqsUpTo(Entries({<<"a">>}, {0}), MaxEntries)

\* fewer entries that differ in content and time of storing as well
RichStores ==
    {s \in SeqsUpTo(Entries(KnowContents, Times), MaxHybridRows) :
        \A i, j \in 1..Len(s) : i < j => s[i].now <= s[j].now}

\* the database after init_knowledge_schema and the inserts of a sequence of stores
RECURSIVE Stored(_, _)
Stored(stores, has_vec) ==
    IF stores = <<>> THEN init_knowledge_schema(connect(EmptyDb), has_vec, has_vec).db
    ELSE LET e == stores[Len(stores)]
         IN  insert_knowledge(Stored(SubSeq(stores, 1, Len(stores) - 1), has_vec),
                              has_vec, has_vec, e.content, e.category, NoneVal,
                              e.embedding, e.now).db

InitKnow ==
    /\ _has_vec \in BOOLEAN /\ conn_loaded = _has_vec
    /\ conn_db \in {Stored(s, _has_vec) : s \in LeanStores \cup RichStores}
    /\ disk = conn_db
    /\ pc = "open" /\ dbKind = "knowledge" /\ lastOp = NoOp
    /\ version = "ts1" /\ source_tree = [p \in AllFlowPaths |-> Absent]
    /\ files = <<>> /\ pending = <<>>
    /\ stats = ZeroStats /\ obs = NoObs /\ prev = NoneVal /\ runs = 0
    /\ ChunkIdle
    /\ WalkIdle /\ CallIdle

QueryVector ==
    /\ pc = "open" /\ dbKind = "knowledge" /\ lastOp.op = "none"
    /\ \E q \in Vectors, k \in TopKs, cat \in CategoryFilters :
          \E r \in search_knowledge(conn_db, _has_vec, conn_loaded, q, cat, k) :
              lastOp' = Called("search_knowledge", <<q, cat, k>>, r)
    /\ UNCHANGED conn_db
    /\ StoreUnchanged

QueryFts ==
    /\ pc = "open" /\ dbKind = "knowledge" /\ lastOp.op = "none"
    /\ conn_db.kseq <= MaxHybridRows
    /\ \E text \in QueryTexts, k \in TopKs, cat \in {NoneVal, Some("fact")} :
          \E r \in search_knowledge_fts(conn_db, text, cat, k) :
              lastOp' = Called("search_knowledge_fts", <<text, cat, k>>, r)
    /\ UNCHANGED conn_db
    /\ StoreUnchanged

\* the arguments recorded include the two lists the fusion was given
QueryHybrid ==
    /\ pc = "open" /\ dbKind = "knowledge" /\ lastOp.op = "none"
    /\ conn_db.kseq <= MaxHybridRows
    /\ \E q \in Vectors, text \in QueryTexts, k \in TopKs, cat \in {NoneVal, Some("fact")} :
          \E vec \in search_knowledge(conn_db, _has_vec, conn_loaded, q, cat, k * 2),
             fts \in search_knowledge_fts(conn_db, text, cat, k * 2) :
              lastOp' = Called("search_knowledge_hybrid",
                               <<q, text, cat, k, vec.ret, fts.ret>>,
                               HybridOf(conn_db, vec, fts, k, DefaultRrfK))
    /\ UNCHANGED conn_db
    /\ StoreUnchanged

\* the query flow called with its four parameters
QueryFlow ==
    /\ pc = "open" /\ dbKind = "knowledge" /\ lastOp.op = "none"
    /\ \E q \in Vectors, k \in TopKs, cat \in CategoryFilters :
          \E r \in query(conn_db, conn_loaded, q, cat, k) :
              conn_db' = r.db /\ lastOp' = Called("query", <<q, cat, k>>, r)
    /\ StoreUnchanged

\* the command line's query command, with --hybrid or --no-hybrid
CliQuery ==
    /\ pc = "open" /\ dbKind = "knowledge" /\ lastOp.op = "none"
    /\ \E q \in Vectors, k \in TopKs, cat \in CategoryFilters, hybrid \in BOOLEAN :
          \E r \in cli_query(conn_db, conn_loaded, q, cat, k, hybrid) :
              conn_db' = r.db /\ lastOp' = Called("cli_query", <<q, cat, k, hybrid>>, r)
    /\ StoreUnchanged

NextKnow == QueryVector \/ QueryFts \/ QueryHybrid \/ QueryFlow \/ CliQuery

SpecKnow == InitKnow /\ [][NextKnow]_vars

\* the distance of a knowledge row's vector to a query
RowDistance(db, q, kn) == Distance(q, (CHOOSE v \in db.kvec : v.id = kn.id).embedding)

\* C16: with the vector table in use, search_knowledge with a category filter
\* c and limit k returns the min(k, m) nearest of the m stored entries of
\* category c, nearest first, whatever entries of other categories exist.
C16_CategoryFilterExact ==
    (/\ lastOp.op = "search_knowledge" /\ ~lastOp.raised
     /\ _has_vec /\ Truthy(lastOp.args[2])) =>
        LET q == lastOp.args[1]
            c == lastOp.args[2].val
            k == lastOp.args[3]
            ret == lastOp.ret
            ofC == {kn \in conn_db.knowledge : kn.category = c}
        IN  /\ Len(ret) = Min(k, Cardinality(ofC))
            /\ \A i \in 1..Len(ret) :
                  /\ ret[i].category = c
                  /\ Cardinality({kn \in ofC :
                        RowDistance(conn_db, q, kn) < 1 - ret[i].relevance}) <= i - 1
            /\ \A i, j \in 1..Len(ret) : i < j => ret[i].relevance >= ret[j].relevance

\* the positions of a ranked list at which a key occurs
Positions(list, key) == {i \in 1..Len(list) : EntryKey(list[i]) = key}

\* the sum of 1/(rrf_k + rank + 1), in units of 1/unit, over positions (rank + 1)
RECURSIVE SumOfContributions(_, _)
SumOfContributions(positions, unit) ==
    IF positions = {} THEN 0
    ELSE LET i == CHOOSE x \in positions : TRUE
         IN  unit \div (DefaultRrfK + i) + SumOfContributions(positions \ {i}, unit)

\* the two lists a hybrid search fused, its limit, and the fused score of a key
VecList == lastOp.args[5]
FtsList == lastOp.args[6]
HybridK == lastOp.args[4]
HybridUnit == RrfUnit(DefaultRrfK, Max(Len(VecList), Len(FtsList)))
FusedScore(key) ==
    SumOfContributions(Positions(VecList, key), HybridUnit)
        + SumOfContributions(Positions(FtsList, key), HybridUnit)
HybridReturned == lastOp.op = "search_knowledge_hybrid" /\ ~lastOp.raised

\* C17: search_knowledge_hybrid returns at most k entries in non-increasing
\* relevance; each list has at most 2k entries; an entry's relevance is the sum
\* over both lists of 1/(rrf_k + rank + 1) for the ranks its key has there; a
\* key of the vector list is returned with the vector list's body.
C17_HybridRrf ==
    HybridReturned =>
        LET ret == lastOp.ret
        IN  /\ Len(ret) <= HybridK
            /\ Len(VecList) <= 2 * HybridK /\ Len(FtsList) <= 2 * HybridK
            /\ \A i, j \in 1..Len(ret) : i < j => ret[i].relevance[1] >= ret[j].relevance[1]
            /\ \A i \in 1..Len(ret) :
                  /\ ret[i].relevance = <<FusedScore(EntryKey(ret[i])), HybridUnit>>
                  /\ Positions(VecList, EntryKey(ret[i])) # {} =>
                        \E p \in Positions(VecList, EntryKey(ret[i])) :
                            /\ DOMAIN ret[i] = DOMAIN VecList[p]
                            /\ \A f \in DOMAIN ret[i] \ {"relevance"} :
                                  ret[i][f] = VecList[p][f]

\* two entries returned, the first found by both searches, the second by one
C17_Witness ==
    /\ HybridReturned /\ Len(lastOp.ret) = 2
    /\ Positions(VecList, EntryKey(lastOp.ret[1])) # {}
    /\ Positions(FtsList, EntryKey(lastOp.ret[1])) # {}
    /\ Positions(FtsList, EntryKey(lastOp.ret[2])) = {}
    /\ lastOp.ret[1].relevance[1] > lastOp.ret[2].relevance[1]

\* the keys of the two lists, and the places of a key in the result
HybridKeys == {EntryKey(VecList[i]) : i \in 1..Len(VecList)}
                  \cup {EntryKey(FtsList[i]) : i \in 1..Len(FtsList)}
Places(key) == Positions(lastOp.ret, key)

\* key a is in both lists, key b at one position of one list only, and that
\* position is one of a's
InBothAgainstOne(a, b) ==
    /\ Positions(VecList, a) # {} /\ Positions(FtsList, a) # {}
    /\ Cardinality(Positions(VecList, b)) + Cardinality(Positions(FtsList, b)) = 1
    /\ Positions(VecList, b) \cup Positions(FtsList, b)
           \subseteq Positions(VecList, a) \cup Positions(FtsList, a)

\* C18: in search_knowledge_hybrid an entry that is in both lists has a
\* strictly higher fused score than an entry that is in one list only, at a
\* position the first entry has too, and comes strictly earlier in the result.
C18_HybridMonotone ==
    HybridReturned =>
        \A a, b \in HybridKeys :
            InBothAgainstOne(a, b) =>
                /\ FusedScore(a) > FusedScore(b)
                /\ \A j \in Places(b) :
                      /\ \E i \in Places(a) : i < j
                      /\ \A i \in Places(a) : lastOp.ret[i].relevance[1]
                                                  > lastOp.ret[j].relevance[1]

\* both entries are returned: the one found twice first
C18_Witness ==
    /\ HybridReturned
    /\ \E a, b \in HybridKeys :
          InBothAgainstOne(a, b) /\ Places(a) = {1} /\ Places(b) = {2}

\* C37: in search_knowledge_hybrid two distinct knowledge rows are never fused
\* into one result.  Each of the two lists holds a row at most once, so the
\* entries of the vector list have pairwise distinct keys, and so have the
\* entries of the full-text list, whose ids tell the rows apart; every row of
\* the two lists then has a fused score of its own.
C37_KeyIdentifiesRows ==
    HybridReturned =>
        /\ \A i, j \in 1..Len(VecList) :
              i # j => EntryKey(VecList[i]) # EntryKey(VecList[j])
        /\ \A i, j \in 1..Len(FtsList) :
              FtsList[i].id # FtsList[j].id => EntryKey(FtsList[i]) # EntryKey(FtsList[j])

\* C19: the command line's query command, which passes hybrid to the query
\* flow, completes, and without hybrid its result is a result of the pure
\* vector search.
C19_CliQueryCompletes ==
    lastOp.op = "cli_query" =>
        /\ ~lastOp.raised
        /\ ~lastOp.args[4] =>
              \E r \in search_knowledge(conn_db, _has_vec, conn_loaded, lastOp.args[1],
                                        lastOp.args[2], lastOp.args[3]) :
                  lastOp.ret = r.ret

\* a full-text match on a text finds the row with an id
MatchFinds(db, id, text) ==
    \E f \in db.fts : f.rowid = id /\ FtsMatch(f, FtsQuery(text))

\* the full-text index holds exactly the (id, content, category) of the rows
FtsInSync(db) == db.fts = {FtsRow(r) : r \in db.knowledge}

\* C20 as stated: once init_knowledge_schema has run, the full-text index
\* holds exactly the rows of knowledge, a match on a row's content finds the
\* row, and a match on the content a row had before an update or a delete
\* that took it away no longer finds the row.
C20_MatchIffRowHasContent ==
    conn_db.ftsTable =>
        /\ FtsInSync(conn_db)
        /\ \A r \in conn_db.knowledge : MatchFinds(conn_db, r.id, r.content)
        /\ (/\ lastOp.op \in {"update_knowledge", "delete_knowledge"}
            /\ ~\E r \in conn_db.knowledge :
                  r.id = lastOp.args[1] /\ r.content = lastOp.args[2])
               => ~MatchFinds(conn_db, lastOp.args[1], lastOp.args[2])

\* C20, amended: once init_knowledge_schema has run, the full-text index
\* holds exactly the rows of knowledge; a match on the content of a row that
\* has a token finds the row; a match finds a row only if the row exists and
\* its present content or category contains the phrase.
C20_FtsSynchrony ==
    conn_db.ftsTable =>
        /\ FtsInSync(conn_db)
        /\ \A r \in conn_db.knowledge :
              Tokens(r.content) # <<>> => MatchFinds(conn_db, r.id, r.content)
        /\ \A id \in 1..conn_db.kseq, text \in StoreContents :
              MatchFinds(conn_db, id, text) =>
                  \E r \in conn_db.knowledge : r.id = id /\ FtsMatch(FtsRow(r), FtsQuery(text))

\* after an insert, a delete of the first row and an update of the second
C20_Witness ==
    /\ conn_db.ftsTable /\ lastOp.op = "update_knowledge"
    /\ conn_db.kseq = 2 /\ Cardinality(conn_db.knowledge) = 1
    /\ lastOp.args[2] # lastOp.args[3]
    /\ \E r \in conn_db.knowledge : r.id = 2 /\ r.content = lastOp.args[3]

(***************************************************************************)
(* Specification of the flows' connections: a process calls the flows one  *)
(* after the other.  A flow is the list of its statements after connect,   *)
(* each a statement on the connection ("db"), a call of the embedder, or   *)
(* conn.close(); what the database holds plays no part here.  A call runs  *)
(* the statements in order until one raises; which one does, if any, is    *)
(* drawn.  The loop of an index flow is one pass of its body.              *)
(***************************************************************************)
FlowNames == {"index_codebase", "index_documents", "search_codebase", "store", "query"}

\* whether the flow begins with "if not root.is_dir(): raise FileNotFoundError"
ChecksPath(flow) == flow \in {"index_codebase", "index_documents"}

Statements(flow) ==
    CASE flow = "index_codebase" ->
             \* init_metadata_schema, init_codebase_schema, the version check,
             \* delete_stale_chunks, _flush (embed_texts, upserts), commit, close
             <<"db", "db", "db", "db", "embedder", "db", "db", "close">>
      [] flow = "index_documents" ->
             \* init_codebase_schema, delete_stale_chunks, _flush, commit, close
             <<"db", "db", "embedder", "db", "db", "close">>
      [] flow = "search_codebase" ->
             \* embed_one(query), search_code, close
             <<"embedder", "db", "close">>
      [] flow = "store" ->
             \* init_knowledge_schema, embed_one, insert_knowledge, commit, close
             <<"db", "embedder", "db", "db", "close">>
      [] flow = "query" ->
             \* init_knowledge_schema, embed_one(query_text), search_knowledge, close
             <<"db", "embedder", "db", "close">>

\* the statement that raises: 0 for none, else the place of a statement on
\* the connection or of an embedder call
Faults(flow) == {0} \cup {i \in 1..Len(Statements(flow)) : Statements(flow)[i] # "close"}

\* a call of the flow: the connections it opened, whether close() was
\* reached, and the error it ended with ("none" when it returned)
RunFlow(flow, is_dir, fault) ==
    IF ChecksPath(flow) /\ ~is_dir
    THEN [opened |-> 0, closed |-> FALSE, error |-> "not_found"]
    ELSE [opened |-> 1,
          closed |-> \E i \in 1..Len(Statements(flow)) :
                        Statements(flow)[i] = "close" /\ (fault = 0 \/ i < fault),
          error |-> IF fault = 0 THEN "none" ELSE Statements(flow)[fault]]

InitCalls ==
    /\ FlowIdle /\ StoreIdle /\ ChunkIdle /\ WalkIdle /\ CallIdle

FlowCall(flow) ==
    /\ runs < MaxCalls
    /\ runs' = runs + 1
    /\ \E is_dir \in (IF ChecksPath(flow) THEN BOOLEAN ELSE {TRUE}), fault \in Faults(flow) :
          LET r == RunFlow(flow, is_dir, fault)
          IN  /\ conns' = IF r.opened = 1
                          THEN Append(conns, [call |-> runs + 1, closed |-> r.closed])
                          ELSE conns
              /\ lastOp' = [op |-> flow, args |-> <<is_dir, fault>>,
                            raised |-> r.error # "none", ret |-> r.error]
    /\ UNCHANGED <<_has_vec, version, source_tree, conn_db, disk, pc, conn_loaded, files,
                   pending, stats, obs, prev, chunkVars, walkVars, dbKind>>

CallIndexCodebase == FlowCall("index_codebase")
CallIndexDocuments == FlowCall("index_documents")
CallSearchCodebase == FlowCall("search_codebase")
CallStore == FlowCall("store")
CallQuery == FlowCall("query")

NextCalls ==
    CallIndexCodebase \/ CallIndexDocuments \/ CallSearchCodebase \/ CallStore \/ CallQuery

SpecCalls == InitCalls /\ [][NextCalls]_vars

\* the connections the last call opened
OpenedByLastCall == {i \in 1..Len(conns) : conns[i].call = runs}

\* C39: every flow call that returns a result or ends with an error from the
\* embedder or the database has opened exactly one connection, and close()
\* has been called on it when the call ends.
C39_ConnectionClosed ==
    (lastOp.op \in FlowNames /\ lastOp.ret # "not_found") =>
        /\ Cardinality(OpenedByLastCall) = 1
        /\ \A i \in OpenedByLastCall : conns[i].closed

====
